---- MODULE Spec2Model ----
(***************************************************************************)
(* Model of the rosetrellis object layer (src/rosetrellis/models.py):      *)
(* the identity cache, TrelloObject.get / get_many / save / create /       *)
(* refresh, materialization (_state_from_api) with its concurrent          *)
(* inflation tasks, and the update-diff (_changes_from_raw_data).          *)
(*                                                                         *)
(* Coroutines are tasks.  Code between two suspension points is one atomic *)
(* action; the suspension points are the DataSource calls (_get_data,      *)
(* _create_on_api, _changes_to_api), asyncio.wait and asyncio.gather.      *)
(***************************************************************************)
EXTENDS Integers, Sequences, FiniteSets, TLC

(***************************************************************************)
(* Bounds of the model.                                                    *)
(***************************************************************************)
\* number of top-level calls (get, get_many, save, refresh) in a run
MaxOps == 2
\* number of attribute assignments made by the caller in a run
MaxSets == 2
\* number of DataSource calls that fail in a run
MaxFail == 1

(***************************************************************************)
(* Python values.  Every value is a record [t, v] with v a sequence of     *)
(* naturals, so that any two values can be compared as Python's == does.   *)
(*   none  : None                      str  : a string (ids included)      *)
(*   bool  : True / False              date : a parsed datetime            *)
(*   list  : a list of strings         obj  : a reference to an instance   *)
(*   objs  : a TrelloObjectCollection  dict : a nested payload             *)
(*   dicts : a list of nested payloads                                     *)
(***************************************************************************)
None == [t |-> "none", v |-> <<>>]
Str(n) == [t |-> "str", v |-> <<n>>]
Bool(b) == [t |-> "bool", v |-> <<IF b THEN 1 ELSE 0>>]
List(s) == [t |-> "list", v |-> s]
Obj(o) == [t |-> "obj", v |-> <<o>>]
Objs(s) == [t |-> "objs", v |-> s]

\* codes of the strings used as scalar values; ids are the naturals 1..9
EmptyStr == 0
NameA == 11
NameB == 12
\* label colours, in alphabetical order
Blue == 13
Green == 14
Red == 15
\* the strings the state of a check item takes
Complete == 16
Incomplete == 17
TrueStr == 18
FalseStr == 19

\* Python truthiness (if value: ...)
Truthy(x) ==
    CASE x.t = "none" -> FALSE
      [] x.t = "str" -> x.v # <<EmptyStr>>
      [] x.t = "bool" -> x.v = <<1>>
      [] x.t \in {"list", "objs", "dicts"} -> x.v # <<>>
      [] OTHER -> TRUE

\* Python ==: a list and a TrelloObjectCollection (a list subclass) compare
\* by their elements, and an instance never equals a string
PyEq(x, y) ==
    IF x.t \in {"list", "objs", "dicts"} /\ y.t \in {"list", "objs", "dicts"}
    THEN IF x.v = <<>> \/ y.v = <<>> THEN x.v = y.v ELSE x = y
    ELSE x = y

Range(s) == {s[i] : i \in DOMAIN s}

(***************************************************************************)
(* The concrete classes, in the order TrelloObject.__subclasses__() lists  *)
(* them, and their declarations.                                           *)
(***************************************************************************)
Classes == <<"Member", "Organization", "Board", "Lists", "Card", "Checklist",
             "CheckItem", "Label">>

API_FIELDS(cls) ==
    CASE cls = "Member" ->
           <<"avatarHash", "avatarSource", "bio", "bioData", "confirmed",
             "email", "fullName", "gravatarHash", "id", "idBoards",
             "idBoardsPinned", "idOrganizations", "idPremOrgsAdmin",
             "initials", "loginTypes", "memberType",
             "oneTimeMessagesDismissed", "prefs", "premiumFeatures",
             "products", "status", "trophies", "uploadedAvatarHash", "url",
             "username">>
      [] cls = "Organization" ->
           <<"billableMemberCount", "desc", "descData", "displayName", "id",
             "idBoards", "invitations", "invited", "logoHash", "memberships",
             "name", "powerUps", "prefs", "premiumFeatures", "products",
             "url", "website">>
      [] cls = "Board" ->
           <<"closed", "dateLastActivity", "dateLastView", "desc", "descData",
             "id", "idOrganization", "invitations", "invited", "labelNames",
             "memberships", "name", "pinned", "powerUps", "prefs",
             "shortLink", "shortUrl", "starred", "subscribed", "url">>
      [] cls = "Lists" ->
           <<"closed", "id", "idBoard", "name", "pos", "subscribed">>
      [] cls = "Card" ->
           <<"badges", "checkItemStates", "closed", "dateLastActivity",
             "desc", "descData", "due", "email", "id", "idAttachmentCover",
             "idBoard", "idChecklists", "idLabels", "idList", "idMembers",
             "idMembersVoted", "idShort", "labels", "manualCoverAttachment",
             "name", "pos", "shortLink", "shortUrl", "subscribed", "url">>
      [] cls = "Checklist" ->
           <<"cards", "checkItems", "id", "idBoard", "idCard", "name", "pos">>
      [] cls = "CheckItem" ->
           <<"id", "name", "nameData", "pos", "state">>
      [] cls = "Label" ->
           <<"color", "id", "idBoard", "name", "uses">>

API_SINGLE_KEY(cls) ==
    CASE cls = "Member" -> "idMember"
      [] cls = "Organization" -> "idOrganization"
      [] cls = "Board" -> "idBoard"
      [] cls = "Lists" -> "idList"
      [] cls = "Card" -> "idCard"
      [] cls = "Checklist" -> "idChecklist"
      [] cls = "CheckItem" -> "idCheckItem"
      [] cls = "Label" -> "idLabel"

STATE_SINGLE_ATTR(cls) ==
    CASE cls = "Member" -> "member"
      [] cls = "Organization" -> "organization"
      [] cls = "Board" -> "board"
      [] cls = "Lists" -> "list"
      [] cls = "Card" -> "card"
      [] cls = "Checklist" -> "checklist"
      [] cls = "CheckItem" -> "checkitem"
      [] cls = "Label" -> "label"

API_MANY_KEY(cls) ==
    CASE cls = "Member" -> "idMembers"
      [] cls = "Organization" -> "idOrganizations"
      [] cls = "Board" -> "idBoards"
      [] cls = "Lists" -> "idLists"
      [] cls = "Card" -> "idCards"
      [] cls = "Checklist" -> "idChecklists"
      [] cls = "CheckItem" -> "idCheckItem"
      [] cls = "Label" -> "idLabels"

STATE_MANY_ATTR(cls) ==
    CASE cls = "Member" -> "members"
      [] cls = "Organization" -> "organizations"
      [] cls = "Board" -> "boards"
      [] cls = "Lists" -> "lists"
      [] cls = "Card" -> "cards"
      [] cls = "Checklist" -> "checklists"
      [] cls = "CheckItem" -> "checkitems"
      [] cls = "Label" -> "labels"

API_NESTED_MANY_KEY(cls) ==
    CASE cls = "Member" -> "members"
      [] cls = "Organization" -> "organizations"
      [] cls = "Board" -> "boards"
      [] cls = "Lists" -> "lists"
      [] cls = "Card" -> "cards"
      [] cls = "Checklist" -> "checklists"
      [] cls = "CheckItem" -> "checkItems"
      [] cls = "Label" -> "labels"

API_NESTED_SINGLE_KEY(cls) ==
    CASE cls = "Member" -> "member"
      [] cls = "Organization" -> "organization"
      [] cls = "Board" -> "board"
      [] cls = "Lists" -> "list"
      [] cls = "Card" -> "card"
      [] cls = "Checklist" -> "checklist"
      [] cls = "CheckItem" -> "checkItem"
      [] cls = "Label" -> "label"

FieldSet(cls) == Range(API_FIELDS(cls))

\* TrelloObject.is_valid_data: <<valid, extra keys, missing keys>>
is_valid_data(cls, data) ==
    LET extra == (DOMAIN data) \ FieldSet(cls)
        missing == FieldSet(cls) \ (DOMAIN data)
    IN  <<extra = {} /\ missing = {}, extra, missing>>

(***************************************************************************)
(* State transformers.  A transformer is a record                          *)
(*   [api_name, state_name, api_transformer, state_transformer, cls]       *)
(* whose api_transformer is "none", "date" (transform_date_from_api),      *)
(* "get" (cls.get), "get_many" (cls.get_many) or "transform_many" (the     *)
(* CheckItem closure of Checklist), and whose state_transformer is "none", *)
(* "date" (transform_date_from_state) or "ids" (ids_getter).               *)
(***************************************************************************)
StateTransformer(api_name, state_name, api_transformer, state_transformer, cls) ==
    [api_name |-> api_name, state_name |-> state_name,
     api_transformer |-> api_transformer,
     state_transformer |-> state_transformer, cls |-> cls]

NoTransformer == StateTransformer("", "", "none", "none", "")

_get_api_keys(cls) ==
    {API_MANY_KEY(cls), API_NESTED_MANY_KEY(cls), API_SINGLE_KEY(cls),
     API_NESTED_SINGLE_KEY(cls)}

\* the first subclass that declares api_key as one of its relation keys
get_class_for_api_key(api_key) ==
    LET hits == {i \in DOMAIN Classes : api_key \in _get_api_keys(Classes[i])}
    IN  IF hits = {} THEN ""
        ELSE Classes[CHOOSE i \in hits : \A j \in hits : i <= j]

_get_transformer_for_single(cls, nested) ==
    StateTransformer(IF nested THEN API_NESTED_SINGLE_KEY(cls)
                               ELSE API_SINGLE_KEY(cls),
                     STATE_SINGLE_ATTR(cls), "get", "none", cls)

_get_transformer_for_many(cls, nested) ==
    StateTransformer(IF nested THEN API_NESTED_MANY_KEY(cls)
                               ELSE API_MANY_KEY(cls),
                     STATE_MANY_ATTR(cls), "get_many", "ids", cls)

_get_relation_transformer_for_api_key(cls, api_key) ==
    IF api_key \in {API_SINGLE_KEY(cls), API_NESTED_SINGLE_KEY(cls)}
    THEN _get_transformer_for_single(cls, api_key = API_NESTED_SINGLE_KEY(cls))
    ELSE _get_transformer_for_many(cls, api_key = API_NESTED_MANY_KEY(cls))

\* 'date' in fn
HasDate(fn) ==
    fn \in {"dateLastActivity", "dateLastView"}

\* one transformer per api key, in the order of the keys
_make_transformers(api_keys) ==
    [i \in DOMAIN api_keys |->
        LET fn == api_keys[i]
            klass == get_class_for_api_key(fn)
        IN  IF klass # ""
            THEN _get_relation_transformer_for_api_key(klass, fn)
            ELSE StateTransformer(fn, fn,
                                  IF HasDate(fn) THEN "date" ELSE "none",
                                  IF HasDate(fn) THEN "date" ELSE "none", "")]

API_STATE_TRANSFORMERS(cls) == _make_transformers(API_FIELDS(cls))

\* Checklist overrides the hook with the CheckItem transformer
_get_additional_transformers(cls) ==
    IF cls = "Checklist"
    THEN <<StateTransformer(API_NESTED_MANY_KEY("CheckItem"),
                            STATE_MANY_ATTR("CheckItem"),
                            "transform_many", "none", "CheckItem")>>
    ELSE <<>>

\* the first matching element of a sequence of transformers, or dflt
FirstMatch(sts, P(_), dflt) ==
    LET hits == {i \in DOMAIN sts : P(sts[i])}
    IN  IF hits = {} THEN dflt
        ELSE sts[CHOOSE i \in hits : \A j \in hits : i <= j]

_get_transformer_for_api_key(cls, api_key) ==
    LET P(st) == st.api_name = api_key
        std == FirstMatch(API_STATE_TRANSFORMERS(cls), P, NoTransformer)
    IN  FirstMatch(_get_additional_transformers(cls), P, std)

_get_transformer_for_state_attr(cls, attr) ==
    LET P(st) == st.state_name = attr
        std == FirstMatch(API_STATE_TRANSFORMERS(cls), P, NoTransformer)
    IN  FirstMatch(_get_additional_transformers(cls), P, std)

\* the two lookups above for every class and declared name, evaluated once
ApiKeyTransformers ==
    [cls \in Range(Classes) |->
        [k \in FieldSet(cls) |-> _get_transformer_for_api_key(cls, k)]]

StateNames(sts) == {sts[i].state_name : i \in DOMAIN sts}

StateAttrs(cls) ==
    StateNames(API_STATE_TRANSFORMERS(cls) \o _get_additional_transformers(cls))

StateAttrTransformers ==
    [cls \in Range(Classes) |->
        [a \in StateAttrs(cls) |-> _get_transformer_for_state_attr(cls, a)]]

Lookup(tbl, k, dflt) == IF k \in DOMAIN tbl THEN tbl[k] ELSE dflt

TransformerForApiKey(cls, k) ==
    Lookup(ApiKeyTransformers[cls], k, NoTransformer)

TransformerForStateAttr(cls, a) ==
    Lookup(StateAttrTransformers[cls], a, NoTransformer)

\* asyncio.iscoroutinefunction(api_transformer)
IsCoroutine(tf) == tf \in {"get", "get_many", "transform_many"}

(***************************************************************************)
(* Dicts (payloads, attribute tables, diffs) are functions from strings.   *)
(***************************************************************************)
EmptyDict == [k \in {} |-> None]
SetKey(d, k, x) == [j \in (DOMAIN d) \cup {k} |-> IF j = k THEN x ELSE d[j]]
DelKey(d, k) == [j \in (DOMAIN d) \ {k} |-> d[j]]
\* dict.update: the entries of e override those of d
Update(d, e) ==
    [j \in (DOMAIN d) \cup (DOMAIN e) |-> IF j \in DOMAIN e THEN e[j] ELSE d[j]]
\* getattr(obj, name, None)
GetOr(d, k) == IF k \in DOMAIN d THEN d[k] ELSE None

(***************************************************************************)
(* The remote side.  Ids are naturals; the resources that exist before the *)
(* run are an organization and its board, which reference each other, a   *)
(* list of that board, a second board, a list of no board and a card of    *)
(* both.                                                                   *)
(***************************************************************************)
o1 == 1
b1 == 2
l1 == 3
c1 == 4
b2 == 5
l2 == 6
\* a card that has two labels, and the labels
c2 == 26
lb1 == 27
lb2 == 28
\* first id the remote side hands out for a created resource
FirstNewId == 7

\* a payload of class cls: every declared field, null unless given
Payload(cls, id, given) ==
    [k \in FieldSet(cls) |->
        IF k = "id" THEN Str(id)
        ELSE IF k \in DOMAIN given THEN given[k] ELSE None]

InitServer ==
    (o1 :> [cls |-> "Organization",
            data |-> Payload("Organization", o1,
                       [name |-> Str(NameA), displayName |-> Str(NameA),
                        idBoards |-> List(<<b1>>)])]) @@
    (b1 :> [cls |-> "Board",
            data |-> Payload("Board", b1,
                       [name |-> Str(NameA), closed |-> Bool(FALSE),
                        idOrganization |-> Str(o1)])]) @@
    (l1 :> [cls |-> "Lists",
            data |-> Payload("Lists", l1,
                       [name |-> Str(NameA), closed |-> Bool(FALSE),
                        idBoard |-> Str(b1)])]) @@
    (c1 :> [cls |-> "Card",
            data |-> Payload("Card", c1,
                       [name |-> Str(NameA), closed |-> Bool(FALSE),
                        idBoard |-> Str(b2), idList |-> Str(l2),
                        idLabels |-> List(<<>>),
                        labels |-> [t |-> "dicts", v |-> <<>>]])]) @@
    (b2 :> [cls |-> "Board",
            data |-> Payload("Board", b2,
                       [name |-> Str(NameB), closed |-> Bool(FALSE)])]) @@
    (l2 :> [cls |-> "Lists",
            data |-> Payload("Lists", l2,
                       [name |-> Str(NameB), closed |-> Bool(FALSE)])])

\* values a DataSource can put on the wire
Wire(x) == x.t \in {"none", "str", "bool", "list"}

\* the remote resource after an update: the wire entries of the diff
\* that name fields of the resource replace the stored ones
ServerUpdate(res, diff) ==
    [res EXCEPT !.data =
        [k \in DOMAIN res.data |->
            IF k \in DOMAIN diff /\ k # "id" /\ Wire(diff[k])
            THEN diff[k] ELSE res.data[k]]]

\* the remote resource made by a create call
ServerCreate(cls, id, data) ==
    [cls |-> cls,
     data |-> [k \in FieldSet(cls) |->
                 IF k = "id" THEN Str(id)
                 ELSE IF k \in DOMAIN data /\ Wire(data[k]) THEN data[k]
                 ELSE None]]

(***************************************************************************)
(* State.                                                                  *)
(***************************************************************************)
VARIABLES
    cache,       \* obj_cache._cache: key -> instance (key 0 is None)
    objs,        \* the instances, in order of construction
    tasks,       \* the coroutines in flight: task id -> task
    server,      \* the resources of the remote side: id -> [cls, data]
    ret,         \* the top-level call that returned in the last step
    first,       \* id -> the instance the first completed get(id) returned
    getFetches,  \* id -> number of payloads get(id) calls have fetched
    held,        \* the instances the caller has a reference to
    _cache,      \* TrelloClient._cache: CachedUrl -> what was stored
    nops,        \* top-level calls made
    nsets,       \* attribute assignments made
    nfail        \* DataSource calls that failed

vars == <<cache, objs, tasks, server, ret, first, getFetches, held, _cache,
          nops, nsets, nfail>>

\* the part of the state the operations of the program read and write
State ==
    [cache |-> cache, objs |-> objs, tasks |-> tasks, server |-> server,
     ret |-> ret, first |-> first, getFetches |-> getFetches, held |-> held,
     _cache |-> _cache]

\* an input of get: a bare id, or a payload carrying its id
Id(id) == [isData |-> FALSE, id |-> Str(id), data |-> EmptyDict]
Data(d) == [isData |-> TRUE, id |-> d["id"], data |-> d]

\* the exception a coroutine ended with: its type, what it is about and,
\* for a payload that does not fit the fields of the class, the extra and
\* the missing keys its message lists.  NoExc: none, or one not told apart
NoExc == [type |-> "", what |-> "", extra |-> {}, missing |-> {}]

\* the exceptions told apart: NotImplementedError (a class Trello does not
\* let one delete or create), a call with the wrong arguments, a missing
\* attribute, a missing cache key, a resource the remote side does not
\* have, and the ValueError of _get_api_create_from_state
NotSupported ==
    [type |-> "NotImplementedError", what |-> "Trello does not permit",
     extra |-> {}, missing |-> {}]
WrongArguments ==
    [type |-> "TypeError", what |-> "missing argument", extra |-> {},
     missing |-> {}]
NoAttribute ==
    [type |-> "AttributeError", what |-> "no attribute", extra |-> {},
     missing |-> {}]
NoCacheKey ==
    [type |-> "KeyError", what |-> "no cache entry", extra |-> {},
     missing |-> {}]
NotFound ==
    [type |-> "CommFail", what |-> "not found", extra |-> {}, missing |-> {}]

RequiredMissing ==
    [type |-> "ValueError", what |-> "cannot create without", extra |-> {},
     missing |-> {}]

NoTask ==
    [kind |-> "none", pc |-> "none", parent |-> 0, cls |-> "", doi |-> Id(0),
     dois |-> <<>>, inflate |-> TRUE, kw |-> None, obj |-> 0,
     dest_obj |-> 0, dest_attr |-> "", kids |-> <<>>, result |-> None,
     io |-> "", changes |-> EmptyDict, resp |-> EmptyDict, sent |-> <<>>,
     posted |-> EmptyDict, nCreate |-> 0, hadId |-> FALSE, fetched |-> FALSE,
     joined |-> <<>>, stamp |-> 0, before |-> 0, exc |-> NoExc, hit |-> 0,
     born |-> 0, resolved |-> FALSE, nDelete |-> 0, members |-> <<>>,
     url |-> 0, method |-> "", status |-> 0, retry_count |-> 0, nSend |-> 0]

\* key of an instance in the cache: its id attribute
CacheKey(idv) == IF idv.t = "str" THEN idv.v[1] ELSE 0

\* a card that keeps the id list next to the nested labels
KeepIdLabels(cls, api_data, inflate_children) == api_data

\* a cache that finds nothing
NeverCached(s, idv) == 0

obj_cache_get(s, idv) ==
    IF CacheKey(idv) \in DOMAIN s.cache THEN s.cache[CacheKey(idv)] ELSE 0

\* a cache that registers nothing
NoCacheSet(s, o) == s

obj_cache_set(s, o) ==
    [s EXCEPT !.cache = SetKey(s.cache, CacheKey(s.objs[o].attrs["id"]), o)]

\* obj_cache.remove: del _cache[id_], for an id the cache holds
obj_cache_remove(s, idv) ==
    [s EXCEPT !.cache = [j \in (DOMAIN s.cache) \ {CacheKey(idv)} |->
                             s.cache[j]]]

\* TrelloObject.__init__ (CheckItem.__init__ drops the id it is given)
NewInstance(cls, idv, kw) ==
    [cls |-> cls,
     attrs |-> IF cls = "CheckItem"
               THEN [id |-> None, checklist_id |-> kw]
               ELSE [id |-> idv],
     has_raw |-> FALSE, raw |-> EmptyDict, refreshed_at |-> 0]

FreeTask(s, n) ==
    CHOOSE i \in 1..(Cardinality(DOMAIN s.tasks) + n) :
        Cardinality({j \in 1..i : j \notin DOMAIN s.tasks}) = n

(***************************************************************************)
(* Scalar transformers.  Date strings: 21 is a date with whole seconds,    *)
(* 22 one with milliseconds, 23 the isoformat() of the latter's datetime.  *)
(***************************************************************************)
DateStrings == {21, 22}

\* dateutil's parser.parse; a ValueError yields None
transform_date_from_api(x) ==
    IF x.t = "str" /\ x.v[1] \in DateStrings
    THEN [t |-> "date", v |-> x.v] ELSE None

\* datetime.isoformat() with a trailing +00:00 turned into Z
transform_date_from_state(x) ==
    Str(IF x.v[1] = 22 THEN 23 ELSE x.v[1])

\* ids_getter: [getattr(obj, 'id', None) for obj in seq]; an id of None
\* is written 0 in the list
ids_getter(s, x) ==
    List([i \in DOMAIN x.v |-> CacheKey(GetOr(s.objs[x.v[i]].attrs, "id"))])

\* TrelloObject._run_transformer_func for the functions that are not
\* coroutines
_run_transformer_func(s, value, tf) ==
    CASE tf = "date" /\ value.t = "str" -> transform_date_from_api(value)
      [] tf = "date" /\ value.t = "date" -> transform_date_from_state(value)
      [] tf = "ids" -> ids_getter(s, value)
      [] OTHER -> value

(***************************************************************************)
(* Materialization: TrelloObject._state_from_api and Card._state_from_api. *)
(***************************************************************************)
\* payloads embedded in other payloads, by index
NestedPayloads ==
    <<[id |-> Str(lb1), idBoard |-> None, name |-> Str(NameA),
       color |-> Str(Red), uses |-> None],
      [id |-> Str(lb2), idBoard |-> None, name |-> Str(NameB),
       color |-> Str(Blue), uses |-> None]>>

\* the inputs of get that a relationship value holds
DoiOf(x) == IF x.t = "dict" THEN Data(NestedPayloads[x.v[1]]) ELSE Id(x.v[1])
DoisOf(x) ==
    [i \in DOMAIN x.v |->
        IF x.t = "dicts" THEN Data(NestedPayloads[x.v[i]]) ELSE Id(x.v[i])]

\* Card._state_from_api: with inflation, a payload that has labels loses
\* its idLabels
Card_state_from_api(cls, api_data, inflate_children) ==
    IF cls = "Card" /\ inflate_children /\ "labels" \in DOMAIN api_data
    THEN DelKey(api_data, "idLabels") ELSE api_data

\* self._get_transformer_for_api_key(k) for each key of a payload
TransformersOf(cls, api_data) ==
    [k \in DOMAIN api_data |-> TransformerForApiKey(cls, k)]

\* the transformer function used for a key: none when the value is null
TransformerFunc(sts, api_data, k) ==
    IF api_data[k] = None THEN "none" ELSE sts[k].api_transformer

\* the keys whose transformer is a coroutine, in field order
CoroutineKeys(cls, api_data, sts) ==
    SelectSeq(API_FIELDS(cls),
              LAMBDA k : k \in DOMAIN api_data
                         /\ IsCoroutine(TransformerFunc(sts, api_data, k)))

\* self._refreshed_at = time.time(): the stamp is the number of times the
\* instance has recorded one
Refreshed(s, o) ==
    [s EXCEPT !.objs[o].refreshed_at = @ + 1]

\* the attributes set at once for the keys whose transformer is no coroutine
SetSync(s, o, api_data, keys, sts) ==
    [s EXCEPT !.objs[o].attrs =
        Update(@, [a \in {sts[k].state_name : k \in keys} |->
                      LET k == CHOOSE j \in keys : sts[j].state_name = a
                      IN  _run_transformer_func(s, api_data[k],
                              TransformerFunc(sts, api_data, k))])]

\* the task of self._inflator(dest_field, orig_value, inflator) made for
\* task t, where st is the transformer of the key and idv the id of self
_inflator(t, o, st, x, idv) ==
    [NoTask EXCEPT
        !.kind = IF st.api_transformer = "get" THEN "get" ELSE "get_many",
        !.pc = "start", !.parent = t, !.cls = st.cls,
        !.doi = IF st.api_transformer = "get" THEN DoiOf(x) ELSE Id(0),
        !.dois = IF st.api_transformer = "get" THEN <<>> ELSE DoisOf(x),
        !.kw = IF st.api_transformer = "transform_many" THEN idv ELSE None,
        !.dest_obj = o, !.dest_attr = st.state_name]

\* queue the tasks ts for task t, which then waits for them
Spawn(s, t, ts, pc) ==
    LET ids == [i \in DOMAIN ts |-> FreeTask(s, i)]
    IN  [s EXCEPT !.tasks =
            [j \in (DOMAIN s.tasks) \cup Range(ids) |->
                IF j = t THEN [s.tasks[t] EXCEPT !.pc = pc, !.kids = ids]
                ELSE IF j \in DOMAIN s.tasks THEN s.tasks[j]
                ELSE ts[CHOOSE i \in DOMAIN ids : ids[i] = j]]]

\* the end of the loop of _state_from_api: s2 is the state after the
\* attributes of the handled keys were set, co the keys left to inflate
\* and unknown tells that a key of the payload is no declared field
LoopEnd(s2, t, o, api_data, sts, co, unknown) ==
    IF unknown THEN [s |-> s2, st |-> "raise"]
    ELSE IF co = <<>> THEN [s |-> Refreshed(s2, o), st |-> "ok"]
    ELSE [s |-> Spawn(s2, t,
                      [i \in DOMAIN co |->
                          _inflator(t, o, sts[co[i]], api_data[co[i]],
                                    s2.objs[o].attrs["id"])],
                      "wait"),
          st |-> "wait"]

\* a loop that runs the transformers whatever the flag is
LoopInflating(s1, t, o, api_data, inflate_children, pre, sts, co) ==
    LoopEnd(SetSync(s1, o, api_data,
                    (IF (DOMAIN api_data) \ FieldSet(s1.objs[o].cls) # {}
                     THEN pre ELSE DOMAIN api_data) \ Range(co), sts),
            t, o, api_data, sts, co,
            (DOMAIN api_data) \ FieldSet(s1.objs[o].cls) # {})

\* the loop of _state_from_api; pre is the set of keys the loop handles
\* before it meets a key that is no declared field
Loop(s1, t, o, api_data, inflate_children, pre, sts, co) ==
    IF ~inflate_children
    THEN [s |-> Refreshed([s1 EXCEPT !.objs[o].attrs = Update(@, api_data)], o),
          st |-> "ok"]
    ELSE LoopEnd(SetSync(s1, o, api_data,
                         (IF (DOMAIN api_data) \ FieldSet(s1.objs[o].cls) # {}
                          THEN pre ELSE DOMAIN api_data) \ Range(co), sts),
                 t, o, api_data, sts, co,
                 (DOMAIN api_data) \ FieldSet(s1.objs[o].cls) # {})

\* the loop with the transformers of the keys looked up
LoopWith(s1, t, o, api_data, inflate_children, pre, sts) ==
    Loop(s1, t, o, api_data, inflate_children, pre, sts,
         CoroutineKeys(s1.objs[o].cls, api_data, sts))

\* TrelloObject._state_from_api from self._raw_data = api_data on
RawSet(s, t, o, api_data, inflate_children, pre) ==
    LoopWith([s EXCEPT !.objs[o].raw = api_data, !.objs[o].has_raw = TRUE,
                       !.tasks[t].before = s.objs[o].refreshed_at],
             t, o, api_data, inflate_children, pre,
             TransformersOf(s.objs[o].cls, api_data))

\* _state_from_api up to its asyncio.wait.  st is "ok" when no task was
\* queued (the call is complete), "wait" when task t now waits for the
\* inflation tasks, and "raise" when a key of the payload is not a declared
\* field
_state_from_api(s, t, o, data, inflate_children, pre) ==
    RawSet(s, t, o, Card_state_from_api(s.objs[o].cls, data, inflate_children),
           inflate_children, pre)

\* the sets of keys the loop of _state_from_api may have handled when it
\* meets a key that is no declared field (a dict has no fixed order)
PreChoices(cls, data, inflate_children) ==
    IF inflate_children /\ (DOMAIN data) \ FieldSet(cls) # {}
    THEN {{}, (DOMAIN data) \cap FieldSet(cls)}
    ELSE {{}}

(***************************************************************************)
(* The update-diff and the create payload.                                 *)
(***************************************************************************)
\* the (attribute, api key) pairs each class passes to
\* _changes_from_raw_data
TrackedPairs(cls) ==
    CASE cls = "Member" ->
           <<<<"fullName", "fullName">>, <<"initials", "initials">>,
             <<"username", "username">>, <<"bio", "bio">>,
             <<"avatarSource", "avatarSource">>>>
      [] cls = "Organization" ->
           <<<<"name", "name">>, <<"displayName", "displayName">>,
             <<"desc", "desc">>, <<"website", "website">>>>
      [] cls = "Board" ->
           <<<<"name", "name">>, <<"desc", "desc">>, <<"closed", "closed">>,
             <<"organization", "idOrganization">>>>
      [] cls = "Lists" ->
           <<<<"name", "name">>, <<"board", "idBoard">>, <<"pos", "pos">>,
             <<"subscribed", "subscribed">>>>
      [] cls = "Card" ->
           <<<<"name", "name">>, <<"desc", "desc">>, <<"closed", "closed">>,
             <<"pos", "pos">>, <<"list", "idList">>, <<"board", "idBoard">>,
             <<"due", "due">>, <<"subscribed", "subscribed">>>>
      [] cls = "Checklist" ->
           <<<<"name", "name">>, <<"pos", "pos">>, <<"card", "idCard">>>>
      [] cls = "CheckItem" ->
           <<<<"name", "name">>, <<"pos", "pos">>, <<"state", "state">>>>
      [] cls = "Label" ->
           <<<<"name", "name">>, <<"color", "color">>>>

\* state_value of each pair whose attribute the instance has: what
\* _changes_from_raw_data compares and sends
StateValues(s, o, attr_key_pairs) ==
    [i \in {j \in DOMAIN attr_key_pairs :
               attr_key_pairs[j][1] \in DOMAIN s.objs[o].attrs} |->
        _run_transformer_func(s, s.objs[o].attrs[attr_key_pairs[i][1]],
            TransformerForStateAttr(s.objs[o].cls,
                                    attr_key_pairs[i][1]).state_transformer)]

\* the dirty-flag reading of the comparison: a pair counts as changed as
\* soon as it is tracked
AlwaysDiffers(state_value, raw_value) == TRUE

\* state_value != self._raw_data[key]
Differs(state_value, raw_value) == ~PyEq(state_value, raw_value)

\* the changes dict built from the state values
ChangesOf(ob, attr_key_pairs, vals) ==
    LET changed == {i \in DOMAIN vals :
                      /\ attr_key_pairs[i][2] \in DOMAIN ob.raw
                      /\ Differs(vals[i], ob.raw[attr_key_pairs[i][2]])}
    IN  [key \in {attr_key_pairs[i][2] : i \in changed} |->
            vals[CHOOSE i \in changed : attr_key_pairs[i][2] = key]]

_changes_from_raw_data(s, o, attr_key_pairs) ==
    ChangesOf(s.objs[o], attr_key_pairs, StateValues(s, o, attr_key_pairs))

sorted(q) ==
    CHOOSE r \in [1..Len(q) -> Range(q)] :
        /\ \A i, j \in 1..Len(q) : i < j => r[i] <= r[j]
        /\ \A x \in Range(q) :
              Cardinality({i \in 1..Len(q) : r[i] = x})
                = Cardinality({i \in 1..Len(q) : q[i] = x})

\* Card.label_colors fails unless labels is a sequence of instances that
\* have a color
LabelColorsFail(s, o) ==
    LET at == s.objs[o].attrs
    IN  \/ "labels" \notin DOMAIN at
        \/ at["labels"].t \notin {"objs", "list", "dicts"}
        \/ at["labels"].t \in {"list", "dicts"} /\ at["labels"].v # <<>>
        \/ at["labels"].t = "objs" /\ \E i \in DOMAIN at["labels"].v :
              "color" \notin DOMAIN s.objs[at["labels"].v[i]].attrs

label_colors(s, o) ==
    LET ls == s.objs[o].attrs["labels"].v
    IN  [i \in DOMAIN ls |-> s.objs[ls[i]].attrs["color"].v[1]]

\* Card._postable_labels: [err, val]; val is None when nothing is to post
_postable_labels(s, o) ==
    LET ob == s.objs[o]
    IN  IF ~ob.has_raw THEN [err |-> TRUE, val |-> None]
        ELSE IF "labels" \notin DOMAIN ob.raw THEN [err |-> FALSE, val |-> None]
        ELSE IF LabelColorsFail(s, o) THEN [err |-> TRUE, val |-> None]
        ELSE IF ob.attrs["labels"].v = <<>> THEN [err |-> FALSE, val |-> None]
        ELSE IF ob.raw["labels"].t # "dicts" THEN [err |-> TRUE, val |-> None]
        ELSE LET rw == ob.raw["labels"].v
                 raw_data_colors ==
                     sorted([i \in DOMAIN rw |->
                                 NestedPayloads[rw[i]]["color"].v[1]])
                 state_colors == sorted(label_colors(s, o))
             IN  [err |-> FALSE,
                  val |-> IF raw_data_colors # state_colors
                          THEN [t |-> "joined", v |-> state_colors]
                          ELSE None]

\* Card._get_api_update_from_state: the changes and the labels to post
CardUpdate(changes, pl) ==
    IF pl.err THEN [err |-> TRUE, changes |-> EmptyDict]
    ELSE [err |-> FALSE,
          changes |-> IF pl.val # None THEN SetKey(changes, "labels", pl.val)
                      ELSE changes]

\* what _get_api_update_from_state makes of the changes of the tracked
\* pairs.  _changes_from_raw_data fails on an instance that was never
\* materialized, and Board's asks its prefs for get_api_update_from_state,
\* which neither the dict stored in prefs nor BoardPrefs has.
UpdateOf(s, o, pairs, changes) ==
    IF \/ ~s.objs[o].has_raw /\ \E i \in DOMAIN pairs :
                                   pairs[i][1] \in DOMAIN s.objs[o].attrs
       \/ s.objs[o].cls = "Board"
    THEN [err |-> TRUE, changes |-> EmptyDict]
    ELSE IF s.objs[o].cls = "Card"
    THEN CardUpdate(changes, _postable_labels(s, o))
    ELSE [err |-> FALSE, changes |-> changes]

\* _get_api_update_from_state of each class: [err, changes]
_get_api_update_from_state(s, o) ==
    UpdateOf(s, o, TrackedPairs(s.objs[o].cls),
             _changes_from_raw_data(s, o, TrackedPairs(s.objs[o].cls)))

_stripped_dict_from_fields(s, o, fields) ==
    [f \in {g \in fields : Truthy(GetOr(s.objs[o].attrs, g))} |->
        s.objs[o].attrs[f]]

\* getattr(getattr(self, attr, None), 'id', None)
IdOfAttr(s, o, attr) ==
    LET x == GetOr(s.objs[o].attrs, attr)
    IN  IF x.t = "obj" THEN GetOr(s.objs[x.v[1]].attrs, "id") ELSE None

\* _get_api_create_from_state of each class: [err, data]
_get_api_create_from_state(s, o) ==
    LET ob == s.objs[o]
        has(a) == Truthy(GetOr(ob.attrs, a))
        fail == [err |-> TRUE, data |-> EmptyDict, exc |-> RequiredMissing]
        ok(d) == [err |-> FALSE, data |-> d, exc |-> NoExc]
    IN  CASE ob.cls = "Organization" ->
               IF ~has("name") \/ ~has("displayName") THEN fail
               ELSE ok(_stripped_dict_from_fields(s, o,
                          {"name", "displayName", "desc", "website"}))
          [] ob.cls = "Board" ->
               IF ~has("name") THEN fail
               ELSE ok(_stripped_dict_from_fields(s, o,
                          {"name", "desc", "idOrganization", "powerUps"}))
          [] ob.cls = "Lists" ->
               IF ~has("name") \/ ~Truthy(IdOfAttr(s, o, "board")) THEN fail
               ELSE ok(SetKey(_stripped_dict_from_fields(s, o,
                                 {"name", "displayName", "pos"}),
                              "idBoard", IdOfAttr(s, o, "board")))
          [] ob.cls = "Card" ->
               IF ~has("name") \/ ~Truthy(IdOfAttr(s, o, "list")) THEN fail
               ELSE LET pl == _postable_labels(s, o)
                        d == _stripped_dict_from_fields(s, o,
                                 {"name", "desc", "pos"})
                    IN  IF pl.err THEN [fail EXCEPT !.exc = NoAttribute]
                        ELSE ok(IF pl.val # None
                                THEN SetKey(d, "labels", pl.val) ELSE d)
          [] ob.cls = "Checklist" ->
               IF ~has("board") \/ ~has("card") THEN fail
               ELSE ok(SetKey(SetKey(_stripped_dict_from_fields(s, o,
                                        {"name", "pos"}),
                                     "idBoard", ob.attrs["board"]),
                              "idCard", ob.attrs["card"]))
          [] ob.cls = "CheckItem" ->
               IF ~has("name") THEN fail
               ELSE ok(_stripped_dict_from_fields(s, o,
                          {"name", "pos", "checked"}))
          [] ob.cls = "Label" ->
               IF ~Truthy(IdOfAttr(s, o, "board")) THEN fail
               ELSE ok(SetKey(_stripped_dict_from_fields(s, o,
                                 {"name", "color"}),
                              "idBoard", IdOfAttr(s, o, "board")))
          [] OTHER -> [fail EXCEPT !.exc = NotSupported]

(***************************************************************************)
(* Tasks.  A task is at "start" (queued, not yet run), "io" (waiting for   *)
(* the DataSource), "wait" (in asyncio.wait for its inflation tasks) or    *)
(* "gather" (in asyncio.gather for its get tasks), and ends "done" or      *)
(* "failed".  A task whose parent stopped waiting for it has parent        *)
(* Orphan.                                                                 *)
(***************************************************************************)
Orphan == -1

Remove(f, ks) == [j \in (DOMAIN f) \ ks |-> f[j]]

Count(f, k) == IF k \in DOMAIN f THEN f[k] ELSE 0

\* task t ends as the record ended: a top-level task hands it to the
\* caller, a task nobody waits for disappears, and any other task keeps it
\* for its parent
End(s, t, ended) ==
    IF ended.parent = 0
    THEN [s EXCEPT !.ret = ended, !.tasks = Remove(s.tasks, {t}),
                   !.held = @ \cup (IF ended.result.t \in {"obj", "objs"}
                                    THEN Range(ended.result.v) ELSE {})]
    ELSE IF ended.parent = Orphan
    THEN [s EXCEPT !.tasks = Remove(s.tasks, {t})]
    ELSE [s EXCEPT !.tasks[t] = ended]

\* the coroutine of task t returns result; an inflation task assigns it to
\* its destination attribute, and the first get(id) to return is noted
Finish(s, t, result) ==
    End([s EXCEPT
            !.objs = IF s.tasks[t].dest_obj # 0
                     THEN [@ EXCEPT ![s.tasks[t].dest_obj].attrs =
                              SetKey(@, s.tasks[t].dest_attr, result)]
                     ELSE @,
            !.first = IF /\ s.tasks[t].kind = "get" /\ ~s.tasks[t].doi.isData
                         /\ Count(@, CacheKey(s.tasks[t].doi.id)) = 0
                      THEN SetKey(@, CacheKey(s.tasks[t].doi.id), result.v[1])
                      ELSE @],
        t, [s.tasks[t] EXCEPT !.pc = "done", !.result = result])

\* the coroutine of task t raises
Fail(s, t) == End(s, t, [s.tasks[t] EXCEPT !.pc = "failed"])

\* the coroutine of task t raises the exception exc
Raise(s, t, exc) ==
    End(s, t, [s.tasks[t] EXCEPT !.pc = "failed", !.exc = exc])

\* raise ValueError("Received incorrect API response ...") with the extra
\* and the missing keys is_valid_data found
SchemaError(valid) ==
    [type |-> "ValueError", what |-> "incorrect API response",
     extra |-> valid[2], missing |-> valid[3]]

\* raise ValueError("Received field from API that we don't know about
\* ..."), which names the one key the loop met
UnknownFieldError ==
    [type |-> "ValueError", what |-> "unknown field", extra |-> {},
     missing |-> {}]

\* a save that never sends an update
NoChanges(changes) == FALSE

\* a save that sends an update whatever the diff
AnyChanges(changes) == TRUE

\* if changes: the update is sent only for a diff that is not empty
HasChanges(changes) == changes # EmptyDict

\* save once the update-diff d is computed, up to the update call
SendChanges(s, t, d) ==
    IF d.err THEN Fail(s, t)
    ELSE IF ~HasChanges(d.changes)
    THEN Finish([s EXCEPT !.tasks[t].changes = d.changes], t, None)
    ELSE IF /\ s.objs[s.tasks[t].obj].cls = "CheckItem"
            /\ "card_id" \notin DOMAIN s.objs[s.tasks[t].obj].attrs
    THEN Fail(s, t)
    ELSE [s EXCEPT !.tasks[t].pc = "io", !.tasks[t].io = "update",
                   !.tasks[t].changes = d.changes,
                   !.tasks[t].sent = Append(@, d.changes)]

\* save, from the computation of the update-diff on
SaveDiff(s, t) ==
    SendChanges(s, t, _get_api_update_from_state(s, s.tasks[t].obj))

\* Label.get_labels after label._state_from_api has returned:
\* obj_cache.set(label) and labels.append(label)
LabelDone(s, t) ==
    [obj_cache_set(s, s.tasks[t].obj) EXCEPT
        !.tasks[t].members = Append(@, s.tasks[t].obj)]

RECURSIVE get_labels(_, _)

\* what the coroutine of task t does once its _state_from_api call is
\* over: get returns the instance, save goes on after create (its assert
\* needs an id) and ends after an update, refresh ends
AfterMaterialize(s, t) ==
    IF s.tasks[t].kind = "get_labels"
    THEN get_labels(LabelDone(s, t), t)
    ELSE IF s.tasks[t].kind = "save" /\ s.tasks[t].io = "create"
    THEN IF s.objs[s.tasks[t].obj].attrs["id"] = None THEN Fail(s, t)
         ELSE SaveDiff(s, t)
    ELSE Finish(s, t, IF s.tasks[t].kind = "get" THEN Obj(s.tasks[t].obj)
                      ELSE None)

\* continue task t after the part of _state_from_api before its wait
AfterSync(r, t) ==
    CASE r.st = "wait" -> r.s
      [] r.st = "raise" -> Raise(r.s, t, UnknownFieldError)
      [] OTHER -> AfterMaterialize(r.s, t)

\* yield from obj._state_from_api(data, ...) in task t, whose instance is
\* set, up to the first suspension after it
Materialize(s, t, data, inflate_children, pre) ==
    AfterSync(_state_from_api(s, t, s.tasks[t].obj, data, inflate_children,
                              pre), t)

\* Label(label_data['id'], tc): the id is taken for the client and the
\* client for an unused positional argument, so the instance has no id
LabelInstance(s, t) ==
    [s EXCEPT !.objs = Append(@, NewInstance("Label", None, None)),
              !.tasks[t].obj = Len(s.objs) + 1]

\* the loop of Label.get_labels from the next payload of labels_data on, up
\* to the first suspension of the coroutine or to its return
get_labels(s, t) ==
    IF Len(s.tasks[t].members) = Len(s.tasks[t].dois)
    THEN Finish(s, t, Objs(s.tasks[t].members))
    ELSE LET s1 == LabelInstance(s, t)
             r == _state_from_api(s1, t, s1.tasks[t].obj,
                      s.tasks[t].dois[Len(s.tasks[t].members) + 1].data,
                      TRUE, {})
         IN  CASE r.st = "wait" -> r.s
               [] r.st = "raise" -> Raise(r.s, t, UnknownFieldError)
               [] OTHER -> get_labels(LabelDone(r.s, t), t)

\* a construction that leaves the registration for later
ConstructOnly(s, t, idv) ==
    [s EXCEPT !.objs = Append(@, NewInstance(s.tasks[t].cls, idv,
                                             s.tasks[t].kw)),
              !.tasks[t].obj = Len(s.objs) + 1]

\* cls(tc, id=..., **kwargs) followed by obj_cache.set(obj)
Construct(s, t, idv) ==
    obj_cache_set(
        [s EXCEPT !.objs = Append(@, NewInstance(s.tasks[t].cls, idv,
                                                 s.tasks[t].kw)),
                  !.tasks[t].obj = Len(s.objs) + 1],
        Len(s.objs) + 1)

\* CheckItem needs the checklist_id keyword
NeedsKw(tk) == tk.cls = "CheckItem" /\ ~Truthy(tk.kw)

\* TrelloObject.get from its entry to its first suspension; obj is what
\* obj_cache.get(id_) returned (0 for None)
get(s, t, obj, pre) ==
    IF obj = 0 /\ NeedsKw(s.tasks[t]) THEN Fail(s, t)
    ELSE IF obj = 0 /\ ~s.tasks[t].doi.isData
    THEN [s EXCEPT !.tasks[t].pc = "io", !.tasks[t].io = "fetch",
                   !.tasks[t].fetched = TRUE]
    ELSE IF ~s.tasks[t].doi.isData
    THEN Finish([s EXCEPT !.tasks[t].obj = obj], t, Obj(obj))
    ELSE Materialize(IF obj = 0 THEN Construct(s, t, s.tasks[t].doi.data["id"])
                     ELSE [s EXCEPT !.tasks[t].obj = obj],
                     t, s.tasks[t].doi.data, s.tasks[t].inflate, pre)

\* TrelloObject.get after _get_data has returned resp, and
\* TrelloObject.refresh after it has
Fetched(s, t, resp, pre) ==
    IF s.tasks[t].kind = "get" /\ ~is_valid_data(s.tasks[t].cls, resp)[1]
    THEN Raise(s, t, SchemaError(is_valid_data(s.tasks[t].cls, resp)))
    ELSE Materialize(IF s.tasks[t].kind = "get"
                     THEN Construct([s EXCEPT !.getFetches =
                                        SetKey(@, CacheKey(s.tasks[t].doi.id),
                                               Count(@, CacheKey(s.tasks[t].doi.id)) + 1)],
                                    t, s.tasks[t].doi.id)
                     ELSE s,
                     t, resp, s.tasks[t].inflate, pre)

\* TrelloObject.get_many up to its asyncio.gather
get_many(s, t) ==
    IF s.tasks[t].dois = <<>> THEN Finish(s, t, Objs(<<>>))
    ELSE Spawn(s, t,
               [i \in DOMAIN s.tasks[t].dois |->
                   [NoTask EXCEPT !.kind = "get", !.pc = "start",
                                  !.parent = t, !.cls = s.tasks[t].cls,
                                  !.doi = s.tasks[t].dois[i],
                                  !.inflate = s.tasks[t].inflate,
                                  !.kw = s.tasks[t].kw]],
               "gather")

\* a save that takes every object to exist remotely
NeverCreate(ob) == FALSE

\* if not self.id: a new object is created first
NeedsCreate(ob) == ~Truthy(ob.attrs["id"])

\* a create that posts what it has without looking at the error
CreateUnchecked(s, t, c) ==
    [s EXCEPT !.tasks[t].pc = "io", !.tasks[t].io = "create",
              !.tasks[t].posted = c.data,
              !.tasks[t].nCreate = @ + 1]

\* TrelloObject.create up to its _create_on_api call; c is the result of
\* _get_api_create_from_state.  Label passes its id too, which
\* create_label does not take.
create(s, t, c) ==
    IF c.err THEN Raise(s, t, c.exc)
    ELSE IF s.objs[s.tasks[t].obj].cls = "Label"
    THEN Raise(s, t, WrongArguments)
    ELSE [s EXCEPT !.tasks[t].pc = "io", !.tasks[t].io = "create",
                   !.tasks[t].posted = c.data,
                   !.tasks[t].nCreate = @ + 1]

\* a save that gives way to a save of the same instance already waiting
\* for the DataSource
SaveExclusive(s, t) ==
    IF \E u \in DOMAIN s.tasks :
          /\ u # t /\ s.tasks[u].kind = "save" /\ s.tasks[u].pc = "io"
          /\ s.tasks[u].obj = s.tasks[t].obj
    THEN Finish(s, t, None)
    ELSE IF NeedsCreate(s.objs[s.tasks[t].obj])
    THEN create(s, t, _get_api_create_from_state(s, s.tasks[t].obj))
    ELSE SaveDiff(s, t)

\* TrelloObject.save up to its first suspension
save(s, t) ==
    IF NeedsCreate(s.objs[s.tasks[t].obj])
    THEN create(s, t, _get_api_create_from_state(s, s.tasks[t].obj))
    ELSE SaveDiff(s, t)

\* TrelloObjectCollection.save up to its asyncio.gather: one save
\* coroutine for each member, in order
save_all(s, t) ==
    IF s.tasks[t].members = <<>> THEN Finish(s, t, None)
    ELSE Spawn(s, t,
               [i \in DOMAIN s.tasks[t].members |->
                   [NoTask EXCEPT
                       !.kind = "save", !.pc = "start", !.parent = t,
                       !.cls = s.objs[s.tasks[t].members[i]].cls,
                       !.obj = s.tasks[t].members[i],
                       !.hadId = Truthy(s.objs[s.tasks[t].members[i]].attrs["id"]),
                       !.stamp = s.objs[s.tasks[t].members[i]].refreshed_at]],
               "gather")

\* TrelloObjectCollection.inflate: obj.inflate() for each member, a method
\* no TrelloObject has
inflate_all(s, t) ==
    IF s.tasks[t].members = <<>> THEN Finish(s, t, None)
    ELSE Raise(s, t, NoAttribute)

\* a refresh that drops the cache entry of the instance before it fetches
RefreshEvicting(s, t) ==
    IF s.objs[s.tasks[t].obj].cls = "CheckItem" THEN Fail(s, t)
    ELSE [obj_cache_remove(s, s.objs[s.tasks[t].obj].attrs["id"]) EXCEPT
             !.tasks[t].pc = "io", !.tasks[t].io = "fetch",
             !.tasks[t].doi =
                 Id(CacheKey(s.objs[s.tasks[t].obj].attrs["id"]))]

\* TrelloObject.refresh up to its _get_data call
refresh(s, t) ==
    IF s.objs[s.tasks[t].obj].cls = "CheckItem" THEN Fail(s, t)
    ELSE [s EXCEPT !.tasks[t].pc = "io", !.tasks[t].io = "fetch",
                   !.tasks[t].doi =
                       Id(CacheKey(s.objs[s.tasks[t].obj].attrs["id"]))]

\* a library in which every class has a delete endpoint
AllDeletable(cls) == FALSE

\* the classes whose _delete_from_api raises NotImplementedError
NotDeletable(cls) == cls \in {"Member", "Board", "Lists"}

\* _delete_from_api of the instance ob up to its DataSource call: Label
\* calls delete_label without the id, CheckItem reads self.checklist,
\* which nothing sets, and the others read self.id
_delete_from_api(s, t, ob) ==
    IF NotDeletable(ob.cls) THEN Raise(s, t, NotSupported)
    ELSE IF ob.cls = "Label" THEN Raise(s, t, WrongArguments)
    ELSE IF ob.cls = "CheckItem" \/ "id" \notin DOMAIN ob.attrs
    THEN Raise(s, t, NoAttribute)
    ELSE [s EXCEPT !.tasks[t].pc = "io", !.tasks[t].io = "delete",
                   !.tasks[t].doi = Id(CacheKey(ob.attrs["id"])),
                   !.tasks[t].nDelete = @ + 1]

\* TrelloObject.delete up to its first suspension
delete(s, t) == _delete_from_api(s, t, s.objs[s.tasks[t].obj])

\* the loop of delete over the keys of _raw_data and the delattr of
\* _raw_data after it.  A key that is no attribute of the instance raises;
\* all says whether the loop met the other keys before it (a dict has no
\* fixed order)
DelAttrs(s, t, o, ob, all) ==
    IF ~ob.has_raw THEN Raise(s, t, NoAttribute)
    ELSE IF (DOMAIN ob.raw) \subseteq (DOMAIN ob.attrs)
    THEN Finish([s EXCEPT !.objs[o].attrs = Remove(@, DOMAIN ob.raw),
                          !.objs[o].has_raw = FALSE,
                          !.objs[o].raw = EmptyDict],
                t, None)
    ELSE Raise([s EXCEPT !.objs[o].attrs =
                   IF all THEN Remove(@, DOMAIN ob.raw) ELSE @],
               t, NoAttribute)

\* TrelloObject.delete after _delete_from_api has returned
AfterDelete(s, t, o, ob, all) ==
    IF "id" \notin DOMAIN ob.attrs THEN Raise(s, t, NoAttribute)
    ELSE IF CacheKey(ob.attrs["id"]) \notin DOMAIN s.cache
    THEN Raise(s, t, NoCacheKey)
    ELSE DelAttrs(obj_cache_remove(s, ob.attrs["id"]), t, o, ob, all)

\* the remote side deletes the resource of the id it was sent, or answers
\* that there is none
Deleted(s, t, id, all) ==
    IF id \notin DOMAIN s.server THEN Raise(s, t, NotFound)
    ELSE AfterDelete([s EXCEPT !.server = Remove(@, {id})], t,
                     s.tasks[t].obj, s.objs[s.tasks[t].obj], all)


(***************************************************************************)
(* Initial state and actions.                                              *)
(***************************************************************************)
Init ==
    /\ cache = [k \in {} |-> 0]
    /\ objs = <<>>
    /\ tasks = [k \in {} |-> NoTask]
    /\ server = InitServer
    /\ ret = NoTask
    /\ first = [k \in {} |-> 0]
    /\ getFetches = [k \in {} |-> 0]
    /\ _cache = [k \in {} |-> None]
    /\ held = {}
    /\ nops = 0
    /\ nsets = 0
    /\ nfail = 0

\* the state the operations start from: the return of the previous step
\* has been consumed
Cur == [State EXCEPT !.ret = NoTask]

Commit(s) ==
    /\ cache' = s.cache
    /\ objs' = s.objs
    /\ tasks' = s.tasks
    /\ server' = s.server
    /\ ret' = s.ret
    /\ first' = s.first
    /\ getFetches' = s.getFetches
    /\ held' = s.held
    /\ _cache' = s._cache

\* the caller is between two top-level calls
Idle == \A t \in DOMAIN tasks : tasks[t].parent # 0

\* the caller hands the coroutine tk to the event loop and runs the loop
\* until the coroutine has ended
Call(tk) ==
    /\ Idle /\ nops < MaxOps
    /\ Commit([Cur EXCEPT !.tasks = SetKey(@, FreeTask(Cur, 1),
                              [tk EXCEPT !.pc = "start", !.parent = 0])])
    /\ nops' = nops + 1
    /\ UNCHANGED <<nsets, nfail>>

\* a payload the caller passes inline: the stored payload of a resource
\* with another name
InlinePayload(id) == [server[id].data EXCEPT !["name"] = Str(NameB)]

ClassOfPayload(d) == server[CacheKey(d["id"])].cls

\* cls.get(id, tc, inflate_children=inflate)
CallGet(id, inflate) ==
    Call([NoTask EXCEPT !.kind = "get", !.cls = server[id].cls,
                        !.doi = Id(id), !.inflate = inflate])

\* cls.get(payload, tc, inflate_children=inflate)
CallGetData(d, inflate) ==
    Call([NoTask EXCEPT !.kind = "get", !.cls = ClassOfPayload(d),
                        !.doi = Data(d), !.inflate = inflate])

\* CheckItem.get(payload, tc, inflate_children=inflate,
\*               checklist_id=checklist_id)
CallGetItem(d, inflate, checklist_id) ==
    Call([NoTask EXCEPT !.kind = "get", !.cls = "CheckItem",
                        !.doi = Data(d), !.inflate = inflate,
                        !.kw = Str(checklist_id)])

\* the truth value of a tuple: only the empty tuple is false
TupleTruthy(tup) == Len(tup) > 0

\* get_class_for_data: the first subclass of TrelloObject, in the order of
\* their definition, whose is_valid_data(data) is true, or none ("").
\* is_valid_data returns a tuple of three.
get_class_for_data(data) ==
    LET found == SelectSeq(Classes,
                           LAMBDA c : TupleTruthy(is_valid_data(c, data)))
    IN  IF found = <<>> THEN "" ELSE Head(found)

\* get_obj_instance_for_data(d, tc, inflate_children=inflate): without a
\* class it raises, with one it goes on as klass.get(d, tc, ...)
CallResolve(d, inflate) ==
    Call([NoTask EXCEPT !.kind = "get", !.cls = get_class_for_data(d),
                        !.doi = Data(d), !.inflate = inflate,
                        !.resolved = TRUE])

\* cls.get_many(ids, tc)
CallGetMany(cls, ids) ==
    Call([NoTask EXCEPT !.kind = "get_many", !.cls = cls,
                        !.dois = [i \in DOMAIN ids |-> Id(ids[i])]])

\* cls.get_many(ids, tc, inflate_children=inflate)
CallGetManyFlag(cls, ids, inflate) ==
    Call([NoTask EXCEPT !.kind = "get_many", !.cls = cls,
                        !.dois = [i \in DOMAIN ids |-> Id(ids[i])],
                        !.inflate = inflate])

\* obj.save()
CallSave(o) ==
    Call([NoTask EXCEPT !.kind = "save", !.cls = objs[o].cls, !.obj = o,
                        !.hadId = Truthy(objs[o].attrs["id"]),
                        !.stamp = objs[o].refreshed_at])

\* TrelloObjectCollection(m).save() and TrelloObjectCollection(m).inflate()
CallBatch(kind, m) ==
    Call([NoTask EXCEPT !.kind = kind, !.cls = objs[m[1]].cls, !.members = m])

\* obj.refresh(inflate_children=inflate) of an object that has an id
CallRefresh(o, inflate) ==
    /\ "id" \in DOMAIN objs[o].attrs
    /\ Truthy(objs[o].attrs["id"])
    /\ Call([NoTask EXCEPT !.kind = "refresh", !.cls = objs[o].cls,
                           !.obj = o, !.inflate = inflate,
                           !.stamp = objs[o].refreshed_at])

\* Label.get_labels(board_id, tc), which Board.get_labels calls
CallGetLabels(board_id) ==
    Call([NoTask EXCEPT !.kind = "get_labels", !.cls = "Label",
                        !.doi = Id(board_id)])

\* obj.delete().  Each instance is deleted with success at most once, so
\* these calls need no bound of their own.
CallDelete(o) ==
    /\ Idle
    /\ Commit([Cur EXCEPT !.tasks = SetKey(@, FreeTask(Cur, 1),
                              [NoTask EXCEPT !.kind = "delete",
                                             !.pc = "start",
                                             !.cls = objs[o].cls,
                                             !.obj = o])])
    /\ UNCHANGED <<nops, nsets, nfail>>

\* cls(tc): a new object that is not yet on the remote side
New(cls) ==
    /\ Idle /\ nops < MaxOps
    /\ Commit([Cur EXCEPT !.objs = Append(@, NewInstance(cls, None, None)),
                          !.held = @ \cup {Len(objs) + 1}])
    /\ nops' = nops + 1
    /\ UNCHANGED <<nsets, nfail>>

\* the tracked attributes the caller assigns, by class
SetInputs ==
    {<<"Organization", "name">>, <<"Organization", "displayName">>,
     <<"Board", "name">>, <<"Lists", "name">>, <<"Lists", "board">>}

AssignedAttrs(o) == {in[2] : in \in {pr \in SetInputs : pr[1] = objs[o].cls}}

\* the values the caller assigns to attribute a of instance o: a held
\* instance of the right class for a relationship, a string otherwise
AssignableFor(o, a, st) ==
    IF st.api_transformer = "get"
    THEN {Obj(p) : p \in {q \in held : q # o /\ objs[q].cls = st.cls}}
    ELSE IF a = "name" THEN {Str(NameA), Str(NameB)}
    ELSE {Str(NameA)}

Assignable(o, a) ==
    AssignableFor(o, a, TransformerForStateAttr(objs[o].cls, a))

\* obj.a = x
SetAttr(o, a, x) ==
    /\ Idle /\ nsets < MaxSets
    /\ Commit([Cur EXCEPT !.objs[o].attrs = SetKey(@, a, x)])
    /\ nsets' = nsets + 1
    /\ UNCHANGED <<nops, nfail>>

\* the state in which the queued task t starts to run; what the cache
\* holds for its id and the number of instances are noted in the task
Entered(t) ==
    [Cur EXCEPT !.tasks[t].hit = Count(cache, CacheKey(tasks[t].doi.id)),
                !.tasks[t].born = Len(objs)]

\* raise ValueError("Do not know how to handle provided data.")
UnknownDataError ==
    [type |-> "ValueError", what |-> "do not know how to handle",
     extra |-> {}, missing |-> {}]

\* the queued task t of state s runs up to its first suspension
Run(s, t, pre) ==
    CASE s.tasks[t].kind = "get" /\ s.tasks[t].cls = "" ->
             Raise(s, t, UnknownDataError)
      [] s.tasks[t].kind = "get" ->
             get(s, t, obj_cache_get(s, s.tasks[t].doi.id), pre)
      [] s.tasks[t].kind = "get_many" -> get_many(s, t)
      [] s.tasks[t].kind = "save" -> save(s, t)
      [] s.tasks[t].kind = "delete" -> delete(s, t)
      [] s.tasks[t].kind = "save_all" -> save_all(s, t)
      [] s.tasks[t].kind = "inflate_all" -> inflate_all(s, t)
      [] s.tasks[t].kind = "get_labels" ->
             [s EXCEPT !.tasks[t].pc = "io", !.tasks[t].io = "labels"]
      [] OTHER -> refresh(s, t)

\* a queued task runs up to its first suspension
Start(t) ==
    /\ tasks[t].pc = "start"
    /\ \E pre \in PreChoices(tasks[t].cls, tasks[t].doi.data, tasks[t].inflate) :
          Commit(Run(Entered(t), t, pre))
    /\ UNCHANGED <<nops, nsets, nfail>>

\* _get_data returns the stored payload
ReturnData(t) ==
    /\ tasks[t].pc = "io" /\ tasks[t].io = "fetch"
    /\ CacheKey(tasks[t].doi.id) \in DOMAIN server
    /\ server[CacheKey(tasks[t].doi.id)].cls = tasks[t].cls
    /\ \E pre \in PreChoices(tasks[t].cls,
                             server[CacheKey(tasks[t].doi.id)].data,
                             tasks[t].inflate) :
          Commit(Fetched([Cur EXCEPT !.tasks[t].resp =
                                         server[CacheKey(tasks[t].doi.id)].data],
                         t, server[CacheKey(tasks[t].doi.id)].data, pre))
    /\ UNCHANGED <<nops, nsets, nfail>>

NewId == FirstNewId + Cardinality({i \in DOMAIN server : i >= FirstNewId})

\* the step of a task whose DataSource call returned the resource res,
\* now stored under id on the remote side
Returned(t, id, res) ==
    Commit(Materialize([Cur EXCEPT !.tasks[t].resp = res.data,
                                   !.server = SetKey(@, id, res)],
                       t, res.data, TRUE, {}))

\* _create_on_api returns the payload of the created resource
ReturnCreate(t) ==
    /\ tasks[t].pc = "io" /\ tasks[t].io = "create"
    /\ Returned(t, NewId, ServerCreate(tasks[t].cls, NewId, tasks[t].posted))
    /\ UNCHANGED <<nops, nsets, nfail>>

\* _changes_to_api returns the payload of the updated resource
ReturnUpdate(t) ==
    LET id == CacheKey(objs[tasks[t].obj].attrs["id"])
    IN  /\ tasks[t].pc = "io" /\ tasks[t].io = "update"
        /\ id \in DOMAIN server /\ server[id].cls = tasks[t].cls
        /\ Returned(t, id, ServerUpdate(server[id], tasks[t].changes))
        /\ UNCHANGED <<nops, nsets, nfail>>

\* GET board/{id}/labels: the stored payloads of the labels
LabelsData ==
    LET ids == SelectSeq(<<lb1, lb2>>,
                         LAMBDA i : i \in DOMAIN server
                                    /\ server[i].cls = "Label")
    IN  [i \in DOMAIN ids |-> Data(server[ids[i]].data)]

\* tc.get_labels(board_id) returns labels_data
ReturnLabels(t) ==
    /\ tasks[t].pc = "io" /\ tasks[t].io = "labels"
    /\ Commit(get_labels([Cur EXCEPT !.tasks[t].dois = LabelsData], t))
    /\ UNCHANGED <<nops, nsets, nfail>>

\* the delete call of the DataSource returns
ReturnDelete(t) ==
    /\ tasks[t].pc = "io" /\ tasks[t].io = "delete"
    /\ \E all \in BOOLEAN :
          Commit(Deleted(Cur, t, CacheKey(tasks[t].doi.id), all))
    /\ UNCHANGED <<nops, nsets, nfail>>

\* _get_data asks for a resource the remote side does not have under the
\* endpoint of the class: the DataSource raises
ReturnNotFound(t) ==
    /\ tasks[t].pc = "io" /\ tasks[t].io = "fetch"
    /\ IF CacheKey(tasks[t].doi.id) \in DOMAIN server
       THEN server[CacheKey(tasks[t].doi.id)].cls # tasks[t].cls
       ELSE TRUE
    /\ Commit(Raise(Cur, t, NotFound))
    /\ UNCHANGED <<nops, nsets, nfail>>

\* the DataSource call of task t raises
FailIO(t) ==
    /\ tasks[t].pc = "io"
    /\ nfail < MaxFail
    /\ Commit(Fail(Cur, t))
    /\ nfail' = nfail + 1
    /\ UNCHANGED <<nops, nsets>>

Finished(tk) == tk.pc \in {"done", "failed"}

\* asyncio.wait with return_when=FIRST_COMPLETED
FIRST_COMPLETED(ts, kids) == \E k \in Range(kids) : Finished(ts[k])

\* asyncio.wait returns when every task has completed (the default,
\* return_when=ALL_COMPLETED)
ALL_COMPLETED(ts, kids) == \A k \in Range(kids) : Finished(ts[k])

\* asyncio.wait returns in task t: the inflation tasks are dropped (their
\* exceptions with them), _refreshed_at is set and the coroutine goes on
JoinWait(t) ==
    /\ tasks[t].pc = "wait"
    /\ ALL_COMPLETED(tasks, tasks[t].kids)
    /\ Commit(AfterMaterialize(
                  Refreshed([Cur EXCEPT !.tasks =
                      [j \in (DOMAIN tasks) \ Range(tasks[t].kids) |->
                          IF j = t
                          THEN [tasks[t] EXCEPT !.joined =
                                   [i \in DOMAIN tasks[t].kids |->
                                       tasks[tasks[t].kids[i]].pc]]
                          ELSE tasks[j]]],
                            tasks[t].obj), t))
    /\ UNCHANGED <<nops, nsets, nfail>>

\* asyncio.gather returns the results in input order, or raises as soon as
\* one of the gets has raised; the other gets keep running
\* results in the order the gets completed (asyncio.as_completed): the
\* instances in the order of their construction
CompletionOrder(ts, kids) ==
    sorted([i \in DOMAIN kids |-> ts[kids[i]].result.v[1]])

\* the result of asyncio.gather: the results of the coroutines in the
\* order they were passed in
GatherResults(ts, kids) == [i \in DOMAIN kids |-> ts[kids[i]].result.v[1]]

JoinGather(t) ==
    LET kids == tasks[t].kids
    IN  /\ tasks[t].pc = "gather"
        /\ \/ /\ \A k \in Range(kids) : tasks[k].pc = "done"
              /\ Commit(Finish([Cur EXCEPT !.tasks = Remove(@, Range(kids))], t,
                               IF tasks[t].kind = "save_all" THEN None
                               ELSE Objs(GatherResults(tasks, kids))))
           \/ /\ \E k \in Range(kids) : tasks[k].pc = "failed"
              /\ Commit(Fail([Cur EXCEPT !.tasks =
                            [j \in (DOMAIN tasks)
                                     \ {k \in Range(kids) : Finished(tasks[k])} |->
                                IF j \in Range(kids)
                                THEN [tasks[j] EXCEPT !.parent = Orphan]
                                ELSE tasks[j]]], t))
        /\ UNCHANGED <<nops, nsets, nfail>>

\* the classes the caller makes new objects of
NewInputs == {"Organization"}

\* the lists of ids the caller passes to get_many
ManyInputs == {<<b2, b2>>}

\* the ids the caller passes to get, each with the inflate_children it
\* passes
GetInputs ==
    {<<o1, TRUE>>, <<l1, TRUE>>, <<c1, TRUE>>, <<b2, TRUE>>, <<l1, FALSE>>}

\* the resources whose payload the caller passes to get, likewise
DataInputs == {<<l1, TRUE>>, <<b2, TRUE>>, <<l1, FALSE>>}

Next ==
    \/ \E in \in GetInputs : CallGet(in[1], in[2])
    \/ \E in \in DataInputs : CallGetData(InlinePayload(in[1]), in[2])
    \/ \E ids \in ManyInputs : CallGetMany("Board", ids)
    \/ \E o \in held : CallSave(o)
    \/ \E o \in held : CallRefresh(o, TRUE)
    \/ \E cls \in NewInputs : New(cls)
    \/ \E o \in held : \E a \in AssignedAttrs(o) :
          \E x \in Assignable(o, a) : SetAttr(o, a, x)
    \/ \E t \in DOMAIN tasks : Start(t)
    \/ \E t \in DOMAIN tasks : ReturnData(t)
    \/ \E t \in DOMAIN tasks : ReturnCreate(t)
    \/ \E t \in DOMAIN tasks : ReturnUpdate(t)
    \/ \E t \in DOMAIN tasks : FailIO(t)
    \/ \E t \in DOMAIN tasks : JoinWait(t)
    \/ \E t \in DOMAIN tasks : JoinGather(t)

Spec == Init /\ [][Next]_vars

(***************************************************************************)
(* A second run of the program, over payloads that do not fit their class  *)
(* and over the calls the first run leaves out.  The remote side has three *)
(* more resources: a list whose payload has a key that is no declared      *)
(* field, a list whose payload lacks a declared field, and a check item.   *)
(***************************************************************************)
l3 == 21
l4 == 22
i1 == 23
\* the id of the checklist the check item belongs to
k1 == 24

ExtServer ==
    InitServer @@
    (l3 :> [cls |-> "Lists",
            data |-> SetKey(Payload("Lists", l3, [name |-> Str(NameA)]),
                            "softLimit", None)]) @@
    (l4 :> [cls |-> "Lists",
            data |-> DelKey(Payload("Lists", l4, [name |-> Str(NameA)]),
                            "pos")]) @@
    (i1 :> [cls |-> "CheckItem",
            data |-> Payload("CheckItem", i1,
                       [name |-> Str(NameA), state |-> Str(Incomplete)])])

InitExt ==
    /\ cache = [k \in {} |-> 0]
    /\ objs = <<>>
    /\ tasks = [k \in {} |-> NoTask]
    /\ server = ExtServer
    /\ ret = NoTask
    /\ first = [k \in {} |-> 0]
    /\ getFetches = [k \in {} |-> 0]
    /\ _cache = [k \in {} |-> None]
    /\ held = {}
    /\ nops = 0
    /\ nsets = 0
    /\ nfail = 0

\* the ids the caller passes to get, each with its inflate_children
ExtGetInputs == {<<l3, TRUE>>, <<l4, FALSE>>}

\* the resources whose stored payload the caller passes to get, likewise,
\* as long as the remote side has them
ExtDataInputs ==
    {<<l3, TRUE>>, <<l3, FALSE>>, <<l4, TRUE>>, <<o1, TRUE>>, <<o1, FALSE>>,
     <<b2, FALSE>>}

\* the resources whose stored payload the caller passes to
\* get_obj_instance_for_data, likewise
ResolveInputs == {<<b2, FALSE>>, <<l3, TRUE>>, <<l3, FALSE>>}

\* a view that hands out the state as it is
PassThrough(ob) == GetOr(ob.attrs, "state")

\* CheckItem.complete, the getter
complete(ob) ==
    IF "state" \notin DOMAIN ob.attrs THEN None
    ELSE IF ob.attrs["state"] \in {Str(Complete), Str(TrueStr)} THEN Bool(TRUE)
    ELSE IF ob.attrs["state"] \in {Str(Incomplete), Str(FalseStr)}
    THEN Bool(FALSE)
    ELSE ob.attrs["state"]

\* CheckItem.complete, the setter
complete_setter(s, o, value) ==
    [s EXCEPT !.objs[o].attrs =
        SetKey(@, "state",
               IF value \in {Str(Incomplete), Str(FalseStr), Bool(FALSE)}
               THEN Bool(FALSE) ELSE Bool(TRUE))]

\* item.complete = value; the assignment is the last call that returned
SetComplete(o, value) ==
    /\ Idle /\ nsets < MaxSets
    /\ objs[o].cls = "CheckItem"
    /\ Commit([complete_setter(Cur, o, value) EXCEPT
                  !.ret = [NoTask EXCEPT !.kind = "complete=", !.obj = o,
                                         !.cls = "CheckItem", !.kw = value]])
    /\ nsets' = nsets + 1
    /\ UNCHANGED <<nops, nfail>>

\* the strings the caller assigns to item.state
StateInputs == {Complete, TrueStr, FalseStr}

\* the inflate_children flags CheckItem.get is called with for the stored
\* payload of the check item
ItemInputs == {TRUE, FALSE}

\* the lists of ids the caller passes to Board.get_many in this run, with
\* inflate_children=False
ExtManyInputs == {<<b1, b2>>}

NextExt ==
    \/ \E in \in ExtGetInputs :
          in[1] \in DOMAIN server /\ CallGet(in[1], in[2])
    \/ \E in \in ExtDataInputs :
          in[1] \in DOMAIN server /\ CallGetData(server[in[1]].data, in[2])
    \/ \E in \in ResolveInputs :
          in[1] \in DOMAIN server /\ CallResolve(server[in[1]].data, in[2])
    \/ \E in \in ItemInputs : CallGetItem(server[i1].data, in, k1)
    \/ \E ids \in ExtManyInputs : CallGetManyFlag("Board", ids, FALSE)
    \/ \E o \in held : \E in \in BOOLEAN : CallRefresh(o, in)
    \/ \E o \in held : CallDelete(o)
    \/ \E o \in held : "id" \in DOMAIN objs[o].attrs /\ CallSave(o)
    \/ \E o \in held :
          objs[o].cls = "Organization" /\ SetAttr(o, "name", Str(NameB))
    \/ \E t \in DOMAIN tasks : Start(t)
    \/ \E t \in DOMAIN tasks : ReturnData(t)
    \/ \E t \in DOMAIN tasks : ReturnDelete(t)
    \/ \E t \in DOMAIN tasks : ReturnUpdate(t)
    \/ \E t \in DOMAIN tasks : ReturnNotFound(t)
    \/ \E t \in DOMAIN tasks : FailIO(t)
    \/ \E t \in DOMAIN tasks : JoinWait(t)
    \/ \E t \in DOMAIN tasks : JoinGather(t)

SpecExt == InitExt /\ [][NextExt]_vars

(***************************************************************************)
(* A third run, for termination: gets with inflation over the resources    *)
(* that reference each other in a cycle (the organization and its board)   *)
(* and those that lead into it.  The event loop runs every coroutine that  *)
(* can run, and every DataSource call returns or raises.                   *)
(***************************************************************************)
LiveInputs == {o1, b1, l1, c1}

\* a step of a coroutine in flight
TaskStep ==
    \E t \in DOMAIN tasks :
        \/ Start(t)
        \/ ReturnData(t)
        \/ FailIO(t)
        \/ JoinWait(t)
        \/ JoinGather(t)

NextLive ==
    \/ \E id \in LiveInputs : CallGet(id, TRUE)
    \/ TaskStep

\* some coroutine in flight can take a step: it is queued, or the
\* DataSource can answer its call, or all it waits for has ended
CanStep ==
    \E t \in DOMAIN tasks :
        \/ tasks[t].pc = "start"
        \/ /\ tasks[t].pc = "io"
           /\ \/ nfail < MaxFail
              \/ /\ tasks[t].io = "fetch"
                 /\ CacheKey(tasks[t].doi.id) \in DOMAIN server
                 /\ server[CacheKey(tasks[t].doi.id)].cls = tasks[t].cls
        \/ tasks[t].pc = "wait" /\ ALL_COMPLETED(tasks, tasks[t].kids)
        \/ /\ tasks[t].pc = "gather"
           /\ \/ \A k \in Range(tasks[t].kids) : tasks[k].pc = "done"
              \/ \E k \in Range(tasks[t].kids) : tasks[k].pc = "failed"

\* weak fairness of TaskStep, with what enables it written out: the event
\* loop does not stop while a coroutine can take a step
FairSteps == []<>(~CanStep) \/ []<><<TaskStep>>_vars

SpecLive == Init /\ [][NextLive]_vars /\ FairSteps

(***************************************************************************)
(* A fourth run, for creation.  It starts after Board.get(payload, tc,      *)
(* inflate_children=False) and Lists.get(payload, tc,                       *)
(* inflate_children=False) have returned the second board and the second   *)
(* list, which serve as the parents of what is created.  The caller makes  *)
(* new objects, assigns their attributes and saves them.                   *)
(***************************************************************************)
\* the instance get makes of a payload without inflation
Flat(cls, data) ==
    [NewInstance(cls, data["id"], None) EXCEPT
        !.attrs = Update(@, data), !.has_raw = TRUE, !.raw = data,
        !.refreshed_at = 1]

InitNew ==
    /\ cache = (b2 :> 1) @@ (l2 :> 2)
    /\ objs = <<Flat("Board", InitServer[b2].data),
                Flat("Lists", InitServer[l2].data)>>
    /\ tasks = [k \in {} |-> NoTask]
    /\ server = InitServer
    /\ ret = NoTask
    /\ first = [k \in {} |-> 0]
    /\ getFetches = [k \in {} |-> 0]
    /\ _cache = [k \in {} |-> None]
    /\ held = {1, 2}
    /\ nops = 0
    /\ nsets = 0
    /\ nfail = 0

\* the classes the caller constructs in this run
CreateInputs == {"Organization", "Board", "Lists", "Card"}

\* the attributes the caller assigns in this run, by class
CreateAttrs(cls) ==
    CASE cls = "Organization" -> {"name", "displayName"}
      [] cls = "Board" -> {"name"}
      [] cls = "Lists" -> {"name", "board"}
      [] cls = "Card" -> {"name", "list"}
      [] OTHER -> {}

\* the values the caller assigns in this run: a name may be the empty
\* string
CreateValues(o, a) ==
    IF a = "name" THEN {Str(NameA), Str(EmptyStr)} ELSE Assignable(o, a)

NextNew ==
    \/ \E cls \in CreateInputs : New(cls)
    \/ \E o \in held : \E a \in CreateAttrs(objs[o].cls) :
          \E x \in CreateValues(o, a) : SetAttr(o, a, x)
    \/ \E o \in held : CallSave(o)
    \/ \E t \in DOMAIN tasks : Start(t)
    \/ \E t \in DOMAIN tasks : ReturnCreate(t)
    \/ \E t \in DOMAIN tasks : ReturnUpdate(t)
    \/ \E t \in DOMAIN tasks : FailIO(t)
    \/ \E t \in DOMAIN tasks : JoinWait(t)

SpecNew == InitNew /\ [][NextNew]_vars

(***************************************************************************)
(* A run of collections: the caller holds the board and the list of the    *)
(* fourth run, renames them, and saves or inflates collections of them.    *)
(***************************************************************************)
\* the collections the caller saves or inflates: two held instances, or
\* one of them twice
BatchInputs == {<<o, p>> : o, p \in held}

NextColl ==
    \/ \E m \in BatchInputs : \E k \in {"save_all", "inflate_all"} :
          CallBatch(k, m)
    \/ \E o \in held : \E x \in {Str(NameA), Str(EmptyStr)} :
          SetAttr(o, "name", x)
    \/ \E t \in DOMAIN tasks : Start(t)
    \/ \E t \in DOMAIN tasks : ReturnUpdate(t)
    \/ \E t \in DOMAIN tasks : FailIO(t)
    \/ \E t \in DOMAIN tasks : JoinGather(t)

SpecColl == InitNew /\ [][NextColl]_vars

(***************************************************************************)
(* A fifth run: a card whose payload nests its two labels and also lists   *)
(* their ids, and a check item.  The caller gets the card with and         *)
(* without inflation, replaces its labels or recolours one, and saves it;  *)
(* and gets the check item and assigns to its complete and its state;      *)
(* and fetches the labels of the board with Label.get_labels.              *)
(***************************************************************************)
CardServer ==
    (c2 :> [cls |-> "Card",
            data |-> Payload("Card", c2,
                       [name |-> Str(NameA), closed |-> Bool(FALSE),
                        idLabels |-> List(<<lb1, lb2>>),
                        labels |-> [t |-> "dicts", v |-> <<1, 2>>]])]) @@
    (lb1 :> [cls |-> "Label", data |-> NestedPayloads[1]]) @@
    (lb2 :> [cls |-> "Label", data |-> NestedPayloads[2]]) @@
    (i1 :> ExtServer[i1])

InitCard ==
    /\ cache = [k \in {} |-> 0]
    /\ objs = <<>>
    /\ tasks = [k \in {} |-> NoTask]
    /\ server = CardServer
    /\ ret = NoTask
    /\ first = [k \in {} |-> 0]
    /\ getFetches = [k \in {} |-> 0]
    /\ _cache = [k \in {} |-> None]
    /\ held = {}
    /\ nops = 0
    /\ nsets = 0
    /\ nfail = 0

\* the label instances the program has
LabelObjs == {o \in DOMAIN objs : objs[o].cls = "Label"}

\* the collections the caller assigns to card.labels: none, one or two of
\* the label instances
LabelChoices ==
    {Objs(<<>>)} \cup {Objs(<<a>>) : a \in LabelObjs}
    \cup {Objs(<<a, b>>) : a, b \in LabelObjs}

NextCard ==
    \/ \E in \in BOOLEAN : CallGet(c2, in)
    \/ CallGetLabels(b2)
    \/ \E o \in held : \E x \in LabelChoices :
          objs[o].cls = "Card" /\ SetAttr(o, "labels", x)
    \/ \E o \in LabelObjs : SetAttr(o, "color", Str(Green))
    \/ \E in \in ItemInputs : CallGetItem(server[i1].data, in, k1)
    \/ \E o \in held : \E b \in BOOLEAN : SetComplete(o, Bool(b))
    \/ \E o \in held : \E x \in StateInputs :
          objs[o].cls = "CheckItem" /\ SetAttr(o, "state", Str(x))
    \/ \E o \in held : CallSave(o)
    \/ \E t \in DOMAIN tasks : Start(t)
    \/ \E t \in DOMAIN tasks : ReturnData(t)
    \/ \E t \in DOMAIN tasks : ReturnLabels(t)
    \/ \E t \in DOMAIN tasks : ReturnUpdate(t)
    \/ \E t \in DOMAIN tasks : FailIO(t)
    \/ \E t \in DOMAIN tasks : JoinWait(t)
    \/ \E t \in DOMAIN tasks : JoinGather(t)

SpecCard == InitCard /\ [][NextCard]_vars

(***************************************************************************)
(* A sixth run, for the transport: the caller makes requests of the        *)
(* client, get requests and others, and the remote side answers each       *)
(* aiohttp.request with a status.  A url is named by the id of its         *)
(* resource, and the params of a request by the set of their names.        *)
(***************************************************************************)
\* the number of requests one call of request may send in a run
MaxSends == 12

RetryLimit == 10
TooManyRequests == 429

UrlInputs == {o1, b1}
MethodInputs == {"get", "put"}
\* the statuses the remote side answers with
StatusInputs == {200, 404, TooManyRequests}

\* CachedUrl(url, params): equal and hashed by the url and the params
CachedUrl(url, params) == <<url, params>>

\* the decoded body of the answer to a request of url
Json(url) == [t |-> "json", v |-> <<url>>]

\* CachedUrlDict.__setitem__ stores (time.time(), value)
Stamped(value) == [t |-> "tuple", v |-> value.v]

CommFail ==
    [type |-> "CommFail", what |-> "bad status", extra |-> {}, missing |-> {}]
InvalidIdError ==
    [type |-> "InvalidIdError", what |-> "invalid id", extra |-> {},
     missing |-> {}]

\* tc.request(url, method, params) with the params of the caller, which
\* have neither key nor token
CallRequest(url, method) ==
    Call([NoTask EXCEPT !.kind = "request", !.url = url, !.method = method])

\* request from its entry to its first aiohttp.request: a get returns
\* what the cache holds for the url and the params as they came
Request(t) ==
    /\ tasks[t].kind = "request" /\ tasks[t].pc = "start"
    /\ Commit(IF /\ tasks[t].method = "get"
                 /\ CachedUrl(tasks[t].url, {}) \in DOMAIN _cache
              THEN Finish(Cur, t, _cache[CachedUrl(tasks[t].url, {})])
              ELSE [Cur EXCEPT !.tasks[t].pc = "io", !.tasks[t].io = "http",
                               !.tasks[t].nSend = 1])
    /\ UNCHANGED <<nops, nsets, nfail>>

\* request after its retry loop: a status above 299 raises, otherwise the
\* body is returned, and for a get stored under the CachedUrl made at the
\* entry, whose params have got the key and the token since
AfterLoop(s, t, invalid_id) ==
    IF 200 <= s.tasks[t].status /\ s.tasks[t].status > 299
    THEN Raise(s, t, IF invalid_id THEN InvalidIdError ELSE CommFail)
    ELSE Finish(IF s.tasks[t].method = "get"
                THEN [s EXCEPT !._cache =
                         SetKey(@, CachedUrl(s.tasks[t].url, {"key", "token"}),
                                Stamped(Json(s.tasks[t].url)))]
                ELSE s,
                t, Json(s.tasks[t].url))

\* aiohttp.request returns r with r.status = status: while the status is
\* 429 and retry_count is below 10 the request is sent again (retry_count
\* is assigned nowhere in the loop); invalid_id tells whether the text of
\* r has "invalid id" in it
Respond(t, status, invalid_id) ==
    /\ tasks[t].kind = "request" /\ tasks[t].pc = "io"
    /\ IF status = TooManyRequests /\ tasks[t].retry_count < RetryLimit
       THEN /\ tasks[t].nSend < MaxSends
            /\ Commit([Cur EXCEPT !.tasks[t].status = status,
                                  !.tasks[t].nSend = @ + 1])
       ELSE Commit(AfterLoop([Cur EXCEPT !.tasks[t].status = status], t,
                             invalid_id))
    /\ UNCHANGED <<nops, nsets, nfail>>

NextHttp ==
    \/ \E u \in UrlInputs : \E m \in MethodInputs : CallRequest(u, m)
    \/ \E t \in DOMAIN tasks : Request(t)
    \/ \E t \in DOMAIN tasks : \E st \in StatusInputs :
          \E inv \in BOOLEAN : Respond(t, st, inv)
    \/ \E t \in DOMAIN tasks : FailIO(t)

SpecHttp == Init /\ [][NextHttp]_vars

(***************************************************************************)
(* Properties.                                                             *)
(***************************************************************************)
\* the tasks in flight and the top-level call that has just returned
Live == {tasks[t] : t \in DOMAIN tasks} \cup {ret}

\* a get(id) call that has returned
DoneGet(tk) == tk.kind = "get" /\ tk.pc = "done" /\ ~tk.doi.isData

\* the keys of a payload that are relationship fields with a value
RelationKeys(data) ==
    {k \in DOMAIN data : data[k] # None /\ get_class_for_api_key(k) # ""}

\* the update-diff of instance o over its tracked pairs
Diff(o) == _changes_from_raw_data(State, o, TrackedPairs(objs[o].cls))

\* C1: in a sequential run of get, get_many, save and refresh calls, every
\* get(id) returns the instance the first get(id) returned, and only the
\* first one fetches the payload of id.
C1_IdentityAndSingleFetch ==
    /\ \A tk \in Live :
          DoneGet(tk) => tk.result = Obj(first[CacheKey(tk.doi.id)])
    /\ \A id \in DOMAIN getFetches : getFetches[id] <= 1

\* C2: get calls in flight at the same time for one id that is not cached
\* issue at most one fetch between them, and return one instance.
C2_SingleFlight ==
    \A t, u \in DOMAIN tasks :
        (/\ t # u
         /\ tasks[t].kind = "get" /\ tasks[u].kind = "get"
         /\ ~tasks[t].doi.isData /\ ~tasks[u].doi.isData
         /\ tasks[t].doi.id = tasks[u].doi.id)
        => /\ ~(tasks[t].pc = "io" /\ tasks[u].pc = "io")
           /\ (tasks[t].pc = "done" /\ tasks[u].pc = "done"
                  => tasks[t].result = tasks[u].result)

\* C3: a call whose materialization had an inflation task fail does not
\* return normally: the failure reaches the caller.
C3_InflationFailureSurfaces ==
    \A tk \in Live : tk.pc = "done" => "failed" \notin Range(tk.joined)

\* C4: a materialization with inflation has one inflation task per
\* relationship field of the payload that is not null; while it waits for
\* them _refreshed_at is not recorded; and its wait ends only when every
\* one of them has completed.
C4_InflationJoin ==
    /\ \A t \in DOMAIN tasks :
          tasks[t].pc = "wait" =>
             /\ Len(tasks[t].kids)
                  = Cardinality(RelationKeys(objs[tasks[t].obj].raw))
             /\ \A i, j \in DOMAIN tasks[t].kids :
                   /\ tasks[t].kids[i] \in DOMAIN tasks
                   /\ tasks[tasks[t].kids[i]].dest_obj = tasks[t].obj
                   /\ i # j => tasks[tasks[t].kids[i]].dest_attr
                                 # tasks[tasks[t].kids[j]].dest_attr
             /\ objs[tasks[t].obj].refreshed_at = tasks[t].before
    /\ \A tk \in Live :
          \A i \in DOMAIN tk.joined : tk.joined[i] \in {"done", "failed"}

\* two inflation tasks of one materialization are in flight together
C4_Witness ==
    \E t \in DOMAIN tasks :
        /\ tasks[t].pc = "wait"
        /\ \E i, j \in DOMAIN tasks[t].kids :
              /\ i # j
              /\ tasks[tasks[t].kids[i]].pc = "io"
              /\ tasks[tasks[t].kids[j]].pc = "io"

\* C5: right after get(payload) returns, the update-diff of the instance
\* is empty, inflated relationships included.
C5_CleanAfterGetPayload ==
    (ret.kind = "get" /\ ret.pc = "done" /\ ret.doi.isData)
    => _get_api_update_from_state(State, ret.obj)
         = [err |-> FALSE, changes |-> EmptyDict]

\* changes is exactly what the tracked pairs of ob that differ from its
\* last known payload give
ExactDiff(ob, attr_key_pairs, changes) ==
    /\ \A i \in DOMAIN attr_key_pairs :
          (/\ attr_key_pairs[i][1] \in DOMAIN ob.attrs
           /\ attr_key_pairs[i][2] \in DOMAIN ob.raw)
          => IF ob.attrs[attr_key_pairs[i][1]] # ob.raw[attr_key_pairs[i][2]]
             THEN /\ attr_key_pairs[i][2] \in DOMAIN changes
                  /\ changes[attr_key_pairs[i][2]]
                       = ob.attrs[attr_key_pairs[i][1]]
             ELSE attr_key_pairs[i][2] \notin DOMAIN changes
    /\ \A k \in DOMAIN changes :
          /\ k \in DOMAIN ob.raw
          /\ \E i \in DOMAIN attr_key_pairs :
                /\ attr_key_pairs[i][2] = k
                /\ attr_key_pairs[i][1] \in DOMAIN ob.attrs

C7_RelationDiffIsId ==
    \A o \in DOMAIN objs :
        objs[o].has_raw =>
           \A i \in DOMAIN TrackedPairs(objs[o].cls) :
              LET a == TrackedPairs(objs[o].cls)[i][1]
                  k == TrackedPairs(objs[o].cls)[i][2]
              IN  (/\ a \in DOMAIN objs[o].attrs /\ k \in DOMAIN objs[o].raw
                   /\ objs[o].attrs[a].t = "obj"
                   /\ objs[objs[o].attrs[a].v[1]].attrs["id"] # objs[o].raw[k])
                  => /\ k \in DOMAIN Diff(o)
                     /\ Diff(o)[k] = objs[objs[o].attrs[a].v[1]].attrs["id"]

C9_SaveNoopWhenClean ==
    /\ \A t \in DOMAIN tasks :
          (tasks[t].kind = "save" /\ tasks[t].hadId /\ tasks[t].pc = "io")
          => /\ tasks[t].io = "update"
             /\ _get_api_update_from_state(State, tasks[t].obj).changes
                  # EmptyDict
    /\ (ret.kind = "save" /\ ret.hadId /\ ret.pc = "done"
        /\ ret.changes = EmptyDict)
       => /\ ret.sent = <<>> /\ ret.nCreate = 0 /\ ret.resp = EmptyDict
          /\ objs[ret.obj].refreshed_at = ret.stamp
          /\ _get_api_update_from_state(State, ret.obj)
               = [err |-> FALSE, changes |-> EmptyDict]

\* a save of an instance without changes has returned
C9_Witness ==
    /\ ret.kind = "save" /\ ret.hadId /\ ret.pc = "done"
    /\ ret.changes = EmptyDict /\ ret.sent = <<>>
    /\ objs[ret.obj].has_raw

\* C10: save of an instance that has no id calls create once, before any
\* diff is computed or update sent, and the id of the instance becomes the
\* id the create response carries.
C10_SaveCreatesFirst ==
    /\ \A t \in DOMAIN tasks :
          (tasks[t].kind = "save" /\ ~tasks[t].hadId
           /\ tasks[t].pc \in {"io", "wait"})
          => /\ tasks[t].nCreate = 1
             /\ tasks[t].io = "create" => tasks[t].sent = <<>>
    /\ (ret.kind = "save" /\ ~ret.hadId /\ ret.pc = "done")
       => /\ ret.nCreate = 1
          /\ objs[ret.obj].attrs["id"] = ret.resp["id"]
          /\ CacheKey(ret.resp["id"]) \in DOMAIN server
          /\ CacheKey(ret.resp["id"]) >= FirstNewId
          /\ server[CacheKey(ret.resp["id"])].cls = ret.cls
    /\ (ret.kind = "save" /\ ~ret.hadId /\ ret.pc = "failed"
        /\ ret.nCreate = 0)
       => _get_api_create_from_state(State, ret.obj).err

\* a save of a new object has returned
C10_Witness ==
    /\ ret.kind = "save" /\ ~ret.hadId /\ ret.pc = "done"
    /\ ret.nCreate = 1
    /\ Truthy(objs[ret.obj].attrs["id"])

\* the payload a get was given or has fetched (none: the empty dict)
PayloadOf(tk) == IF tk.doi.isData THEN tk.doi.data ELSE tk.resp

\* C11: a get on a class whose payload, fetched or supplied, has another
\* key set than the declared fields of the class fails with the error that
\* lists the extra and the missing keys.
C11_SchemaMismatch ==
    \A tk \in Live :
        (/\ tk.kind = "get" /\ Finished(tk)
         /\ PayloadOf(tk) # EmptyDict
         /\ DOMAIN PayloadOf(tk) # FieldSet(tk.cls))
        => /\ tk.pc = "failed"
           /\ tk.exc.type = "ValueError"
           /\ tk.exc.extra = (DOMAIN PayloadOf(tk)) \ FieldSet(tk.cls)
           /\ tk.exc.missing = FieldSet(tk.cls) \ (DOMAIN PayloadOf(tk))

\* C12: dispatch on a payload returns an instance of the class whose
\* declared fields are exactly the keys of the payload, and fails, as
\* unresolvable, when there is no such class.
C12_ResolverExactMatch ==
    \A tk \in Live :
        (tk.resolved /\ Finished(tk))
        => IF \E c \in Range(Classes) : FieldSet(c) = DOMAIN tk.doi.data
           THEN /\ tk.pc = "done"
                /\ FieldSet(objs[tk.result.v[1]].cls) = DOMAIN tk.doi.data
           ELSE /\ tk.pc = "failed"
                /\ tk.exc = UnknownDataError

\* C13: over resources that reference each other in a cycle, a get with
\* inflation ends, whatever the order in which the inflation tasks run:
\* every top-level call returns, and no call fetches a resource twice.
C13_CyclesTerminate ==
    /\ [](\A id \in DOMAIN getFetches : getFetches[id] <= nops)
    /\ (~Idle) ~> Idle

\* a get has returned an organization whose board refers back to it
C13_Witness ==
    /\ ret.kind = "get" /\ ret.pc = "done"
    /\ \E o, b \in DOMAIN objs :
          /\ objs[o].cls = "Organization" /\ "boards" \in DOMAIN objs[o].attrs
          /\ objs[o].attrs["boards"] = Objs(<<b>>)
          /\ "organization" \in DOMAIN objs[b].attrs
          /\ objs[b].attrs["organization"] = Obj(o)

\* C14: a get(payload) whose id is cached when the call starts returns the
\* cached instance itself, issues no fetch of its own, leaves the cache
\* entry of the id on that instance, and the instance's _raw_data is then
\* the supplied payload.
C14_CachedPayloadGet ==
    (ret.kind = "get" /\ ret.doi.isData /\ ret.hit # 0 /\ ret.pc = "done")
    => /\ ret.result = Obj(ret.hit)
       /\ ~ret.fetched
       /\ Count(cache, CacheKey(ret.doi.id)) = ret.hit
       /\ objs[ret.hit].has_raw
       /\ objs[ret.hit].raw = ret.doi.data

\* a cached list that had been fetched by id is handed a payload with
\* another name
C14_Witness ==
    /\ ret.kind = "get" /\ ret.doi.isData /\ ret.hit # 0 /\ ret.pc = "done"
    /\ Count(getFetches, CacheKey(ret.doi.id)) = 1
    /\ objs[ret.hit].raw["name"] = Str(NameB)
    /\ objs[ret.hit].attrs["name"] = Str(NameB)

\* C15: a get(payload) whose id is not cached when the call starts never
\* calls _get_data; when it returns it has constructed exactly one new
\* instance for the id, the cache maps the payload's id to that instance,
\* the instance's _raw_data is the supplied payload, and with
\* inflate_children=False every payload key is an attribute holding the
\* raw value, with inflate_children=True no api key of a relationship is.
C15_UncachedPayloadGet ==
    (ret.kind = "get" /\ ret.doi.isData /\ ret.hit = 0 /\ Finished(ret))
    => /\ ~ret.fetched
       /\ ret.pc = "done"
          => /\ ret.obj > ret.born
             /\ ret.result = Obj(ret.obj)
             /\ {o \in (ret.born + 1)..Len(objs) :
                    GetOr(objs[o].attrs, "id") = ret.doi.id} = {ret.obj}
             /\ Count(cache, CacheKey(ret.doi.id)) = ret.obj
             /\ objs[ret.obj].raw = ret.doi.data
             /\ IF ret.inflate
                THEN \A k \in RelationKeys(ret.doi.data) :
                        k \notin DOMAIN objs[ret.obj].attrs
                ELSE \A k \in DOMAIN ret.doi.data :
                        GetOr(objs[ret.obj].attrs, k) = ret.doi.data[k]

\* C16: when delete() has returned normally, the delete call of the
\* DataSource was made once, for the id of the instance (the remote side
\* no longer has the resource), the cache has no entry for that id, and
\* the instance has none of the attributes materialization had set: only
\* what the constructor set, less the id, is left.
C16_DeleteClears ==
    (ret.kind = "delete" /\ ret.pc = "done")
    => /\ ret.nDelete = 1
       /\ CacheKey(ret.doi.id) \notin DOMAIN server
       /\ CacheKey(ret.doi.id) \notin DOMAIN cache
       /\ (DOMAIN objs[ret.obj].attrs)
             \subseteq ((DOMAIN NewInstance(ret.cls, None, None).attrs)
                           \ {"id"})

\* C17: a delete() of a Board, Lists or Member instance ends with
\* NotImplementedError, has made no DataSource call, and the step in which
\* it ends changes neither the cache nor any instance nor the remote side.
C17_DeleteNotSupported ==
    [][(ret'.kind = "delete" /\ ret'.cls \in {"Board", "Lists", "Member"})
       => /\ ret'.pc = "failed"
          /\ ret'.exc = NotSupported
          /\ ret'.nDelete = 0
          /\ \E t \in DOMAIN tasks :
                /\ tasks[t].kind = "delete" /\ tasks[t].obj = ret'.obj
                /\ tasks[t].pc = "start"
          /\ cache' = cache /\ objs' = objs /\ server' = server]_vars

\* the delete of a materialized, cached Board has failed, and so has that
\* of an instance of another such class
C17_Witness ==
    /\ ret.kind = "delete" /\ ret.pc = "failed" /\ ret.exc = NotSupported
    /\ ret.cls = "Board"
    /\ objs[ret.obj].has_raw
    /\ Count(cache, CacheKey(objs[ret.obj].attrs["id"])) = ret.obj

\* C18: a refresh() of an instance of any class that has ended has issued
\* the fetch for the instance's own id, and when it has returned the cache
\* maps that id to this instance and the instance's _raw_data is the
\* fetched payload.
C18_RefreshInPlace ==
    (ret.kind = "refresh" /\ Finished(ret))
    => /\ ret.io = "fetch"
       /\ ret.doi = Id(CacheKey(GetOr(objs[ret.obj].attrs, "id")))
       /\ ret.pc = "done"
          => /\ objs[ret.obj].has_raw
             /\ objs[ret.obj].raw = ret.resp
             /\ Count(cache, CacheKey(ret.doi.id)) = ret.obj

\* C19: get_many runs one get per input, the i-th for the i-th input, and
\* the collection it returns has the length of the inputs and holds at
\* position i the instance with the id of the i-th input, in whatever
\* order the gets complete.
C19_GetManyOrder ==
    \A tk \in Live :
        tk.kind = "get_many"
        => /\ tk.pc = "gather"
              => /\ Len(tk.kids) = Len(tk.dois)
                 /\ \A i \in DOMAIN tk.kids :
                       /\ tasks[tk.kids[i]].kind = "get"
                       /\ tasks[tk.kids[i]].doi = tk.dois[i]
           /\ tk.pc = "done"
              => /\ Len(tk.result.v) = Len(tk.dois)
                 /\ \A i \in DOMAIN tk.dois :
                       GetOr(objs[tk.result.v[i]].attrs, "id") = tk.dois[i].id

\* the get of the second input completed first: its instance is the
\* older one
C19_Witness ==
    /\ ret.kind = "get_many" /\ ret.pc = "done"
    /\ Len(ret.result.v) = 2
    /\ ret.result.v[1] > ret.result.v[2]
    /\ ret.dois[1] # ret.dois[2]

\* C20: a get or refresh with inflate_children=False that has returned
\* left every key of its payload as an attribute of that name holding the
\* raw value, and waited for no task; and no task in flight was queued by
\* a materialization with inflate_children=False, so that it starts no
\* get of a related resource and no fetch.
C20_NoInflation ==
    /\ (ret.kind \in {"get", "refresh"} /\ ret.pc = "done" /\ ~ret.inflate)
       => /\ \A k \in DOMAIN PayloadOf(ret) :
                GetOr(objs[ret.obj].attrs, k) = PayloadOf(ret)[k]
          /\ ret.kids = <<>> /\ ret.joined = <<>>
    /\ \A t \in DOMAIN tasks :
          (tasks[t].parent \in DOMAIN tasks
           /\ tasks[tasks[t].parent].kind # "get_many")
          => tasks[tasks[t].parent].inflate

\* a payload with the id of a related resource was materialized without
\* inflation: the attribute of the key holds the id
C20_Witness ==
    /\ ret.kind \in {"get", "refresh"} /\ ret.pc = "done" /\ ~ret.inflate
    /\ \E k \in RelationKeys(PayloadOf(ret)) :
          /\ k \in DOMAIN objs[ret.obj].attrs
          /\ objs[ret.obj].attrs[k] = PayloadOf(ret)[k]

\* the instance ob lacks something its class requires for creation: the
\* name (and displayName of an organization), the board of a list, the
\* list of a card, each absent or empty
MissingRequired(ob) ==
    \/ ~Truthy(GetOr(ob.attrs, "name"))
    \/ ob.cls = "Organization" /\ ~Truthy(GetOr(ob.attrs, "displayName"))
    \/ /\ ob.cls \in {"Lists", "Card"}
       /\ \A p \in DOMAIN objs :
             \/ GetOr(ob.attrs, IF ob.cls = "Lists" THEN "board" ELSE "list")
                  # Obj(p)
             \/ ~Truthy(GetOr(objs[p].attrs, "id"))

\* the keys the create payload of a class must have
RequiredKeys(cls) ==
    CASE cls = "Organization" -> {"name", "displayName"}
      [] cls = "Lists" -> {"name", "idBoard"}
      [] cls = "Card" -> {"name", "idList"}
      [] OTHER -> {"name"}

\* the save tk has failed with the ValueError of a missing required
\* field, before any call of the DataSource
SaveRefused(tk) ==
    /\ tk.kind = "save" /\ tk.pc = "failed" /\ tk.exc = RequiredMissing
    /\ tk.nCreate = 0 /\ tk.sent = <<>>

\* C21: when save() of an object without an id starts while something its
\* class requires for creation is absent or empty, it ends at once with
\* the ValueError of _get_api_create_from_state: no create and no update
\* call is made, and no instance (so no id) and nothing on the remote side
\* changes.
C21_CreateValidates ==
    [][\A t \in DOMAIN tasks :
          (/\ tasks[t].kind = "save" /\ tasks[t].pc = "start"
           /\ tasks[t].parent # Orphan
           /\ ~Truthy(GetOr(objs[tasks[t].obj].attrs, "id"))
           /\ MissingRequired(objs[tasks[t].obj])
           /\ (t \in DOMAIN tasks' => tasks'[t].pc # "start"))
          => /\ SaveRefused(IF t \in DOMAIN tasks' THEN tasks'[t] ELSE ret')
             /\ objs' = objs /\ server' = server /\ cache' = cache]_vars

\* the save of a new object whose name is the empty string has failed
C21_Witness ==
    /\ ret.kind = "save" /\ ret.pc = "failed" /\ ret.exc = RequiredMissing
    /\ ~ret.hadId /\ ret.nCreate = 0
    /\ GetOr(objs[ret.obj].attrs, "name") = Str(EmptyStr)
    /\ GetOr(objs[ret.obj].attrs, "id") = None

\* C22: the payload a save posts to create an object holds only fields of
\* the class, each with a non-empty value, holds every key the class
\* requires and never the id; and a save of an object without an id makes
\* no create call only if something required is missing.
C22_CreatePayload ==
    /\ \A tk \in Live :
          (tk.kind = "save" /\ tk.nCreate > 0)
          => /\ (DOMAIN tk.posted) \subseteq (FieldSet(tk.cls) \ {"id"})
             /\ RequiredKeys(tk.cls) \subseteq (DOMAIN tk.posted)
             /\ \A k \in DOMAIN tk.posted : Truthy(tk.posted[k])
    /\ (ret.kind = "save" /\ ~ret.hadId /\ Finished(ret) /\ ret.nCreate = 0)
       => MissingRequired(objs[ret.obj])

\* the colours of the label instances the card o holds, in their order
CurColours(o) ==
    [i \in DOMAIN objs[o].attrs["labels"].v |->
        objs[objs[o].attrs["labels"].v[i]].attrs["color"].v[1]]

\* the colours of the labels of the last payload of the card o
RawColours(o) ==
    [i \in DOMAIN objs[o].raw["labels"].v |->
        NestedPayloads[objs[o].raw["labels"].v[i]]["color"].v[1]]

\* two sequences hold the same elements as often: their sorted lists are
\* equal
SameBag(p, q) ==
    \A x \in Range(p) \cup Range(q) :
        Cardinality({i \in DOMAIN p : p[i] = x})
          = Cardinality({i \in DOMAIN q : q[i] = x})

\* the card o was materialized from a payload with nested labels, and its
\* labels attribute holds label instances that have a colour
HasLabelObjs(o) ==
    /\ objs[o].cls = "Card" /\ Truthy(objs[o].attrs["id"])
    /\ objs[o].has_raw /\ "labels" \in DOMAIN objs[o].raw
    /\ objs[o].raw["labels"].t = "dicts"
    /\ "labels" \in DOMAIN objs[o].attrs
    /\ objs[o].attrs["labels"].t = "objs"
    /\ \A i \in DOMAIN objs[o].attrs["labels"].v :
          LET l == objs[objs[o].attrs["labels"].v[i]]
          IN  "color" \in DOMAIN l.attrs /\ l.attrs["color"].t = "str"

\* the update-diff the save of card o computes in this step has the key
\* labels exactly when the colours differ as bags; the value is then
\* the sorted current colours, joined
LabelDiffOf(tk, o) ==
    /\ tk.pc \in {"io", "done"}
    /\ ("labels" \in DOMAIN tk.changes) <=> ~SameBag(CurColours(o), RawColours(o))
    /\ ("labels" \in DOMAIN tk.changes)
       => /\ tk.changes["labels"].t = "joined"
          /\ SameBag(tk.changes["labels"].v, CurColours(o))
          /\ \A i, j \in DOMAIN tk.changes["labels"].v :
                i < j => tk.changes["labels"].v[i] <= tk.changes["labels"].v[j]

\* C23: the update-diff a save computes for a card holds the key labels
\* exactly when the sorted colours of its current labels differ from the
\* sorted colours of the labels of its last payload, and the value is
\* then the sorted current colours, joined by commas; order and label ids
\* play no part.
C23_LabelDiff ==
    [][\A t \in DOMAIN tasks :
          (/\ tasks[t].kind = "save" /\ tasks[t].pc = "start"
           /\ HasLabelObjs(tasks[t].obj)
           /\ (t \in DOMAIN tasks' => tasks'[t].pc # "start"))
          => LabelDiffOf(IF t \in DOMAIN tasks' THEN tasks'[t] ELSE ret',
                         tasks[t].obj)]_vars

\* C24: a card payload with both labels and idLabels, materialized with
\* inflation, queues exactly one inflation for the labels attribute, the
\* one of the nested labels; the get that fetched it returns a card whose
\* last payload has no idLabels and whose labels are the instances of the
\* nested labels.  Without inflation both keys are kept as they came.
C24_DropIdLabels ==
    /\ \A tk \in Live :
          (tk.cls = "Card" /\ tk.pc = "wait")
          => /\ Cardinality({i \in DOMAIN tk.kids :
                    tasks[tk.kids[i]].dest_attr = "labels"}) = 1
             /\ \A i \in DOMAIN tk.kids :
                   tasks[tk.kids[i]].dest_attr = "labels"
                   => tasks[tk.kids[i]].dois = DoisOf(tk.resp["labels"])
    /\ (ret.kind = "get" /\ ret.pc = "done" /\ ret.cls = "Card" /\ ret.fetched)
       => IF ret.inflate
          THEN /\ "idLabels" \notin DOMAIN objs[ret.obj].raw
               /\ "idLabels" \notin DOMAIN objs[ret.obj].attrs
               /\ objs[ret.obj].attrs["labels"].t = "objs"
               /\ [i \in DOMAIN objs[ret.obj].attrs["labels"].v |->
                      objs[objs[ret.obj].attrs["labels"].v[i]].raw]
                    = [i \in DOMAIN ret.resp["labels"].v |->
                         NestedPayloads[ret.resp["labels"].v[i]]]
          ELSE /\ objs[ret.obj].attrs["idLabels"] = ret.resp["idLabels"]
               /\ objs[ret.obj].attrs["labels"] = ret.resp["labels"]
               /\ objs[ret.obj].raw = ret.resp

\* a get with inflation has fetched the card with its two nested labels
C24_Witness ==
    /\ ret.kind = "get" /\ ret.pc = "done" /\ ret.cls = "Card"
    /\ ret.fetched /\ ret.inflate
    /\ {"labels", "idLabels"} \subseteq DOMAIN ret.resp
    /\ objs[ret.obj].attrs["labels"].t = "objs"
    /\ Len(objs[ret.obj].attrs["labels"].v) = 2

\* what complete reads for each of the four strings of state
CompleteTable ==
    \A o \in DOMAIN objs :
        (objs[o].cls = "CheckItem" /\ "state" \in DOMAIN objs[o].attrs)
        => /\ objs[o].attrs["state"] \in {Str(Complete), Str(TrueStr)}
              => complete(objs[o]) = Bool(TRUE)
           /\ objs[o].attrs["state"] \in {Str(Incomplete), Str(FalseStr)}
              => complete(objs[o]) = Bool(FALSE)

\* C25, as stated: complete reads true for the states "complete" and
\* "true" and false for "incomplete" and "false"; the assignment of a
\* boolean to complete leaves a string in state, and complete then reads
\* the boolean back.
C25_CompleteWritesString ==
    /\ CompleteTable
    /\ ret.kind = "complete="
       => /\ objs[ret.obj].attrs["state"].t = "str"
          /\ complete(objs[ret.obj]) = ret.kw

\* C25, amended: complete reads true for the states "complete" and "true"
\* and false for "incomplete" and "false"; the assignment of a boolean to
\* complete leaves that boolean itself in state, and complete then reads
\* it back.
C25_CompleteView ==
    /\ CompleteTable
    /\ ret.kind = "complete="
       => /\ objs[ret.obj].attrs["state"] = ret.kw
          /\ complete(objs[ret.obj]) = ret.kw

\* true was assigned to complete of a check item fetched as incomplete,
\* and another check item state reads as a string
C25_Witness ==
    /\ ret.kind = "complete=" /\ ret.kw = Bool(TRUE)
    /\ objs[ret.obj].raw["state"] = Str(Incomplete)
    /\ complete(objs[ret.obj]) = Bool(TRUE)

\* the keys BoardPrefs.get_api_from_state makes
PrefsKeys ==
    {"prefs/permissionLevel", "prefs/voting", "prefs/comments",
     "prefs/invitations", "prefs/selfJoin", "prefs/cardCovers",
     "prefs/cardAging", "prefs/background", "prefs/calendarFeedEnabled"}

\* C26: the save of a materialized board computes its update-diff, and
\* the diff of a board whose prefs nobody changed has no prefs entry: a
\* save that sent no update has returned, with a diff free of prefs keys.
C26_BoardPrefsDiff ==
    (/\ ret.kind = "save" /\ ret.cls = "Board" /\ ret.hadId
     /\ objs[ret.obj].has_raw /\ ret.sent = <<>>)
    => /\ ret.pc = "done"
       /\ (DOMAIN ret.changes) \cap PrefsKeys = {}

\* C27: an entry leaves the cache only in a step that ends a delete call,
\* and it is the entry of the id that delete call was made for: no step of
\* a get, get_many, save or refresh removes an entry.
C27_OnlyDeleteEvicts ==
    [][(\E k \in DOMAIN cache : k \notin DOMAIN cache')
       => /\ ret'.kind = "delete"
          /\ \E t \in DOMAIN tasks :
                /\ tasks[t].kind = "delete" /\ tasks[t].pc = "io"
                /\ t \notin DOMAIN tasks'
                /\ (DOMAIN cache) \ (DOMAIN cache')
                     = {CacheKey(tasks[t].doi.id)}]_vars

\* a delete has returned after gets, and the entry of its id is gone while
\* another entry is still there
C27_Witness ==
    /\ ret.kind = "delete" /\ ret.pc = "done" /\ ret.nDelete = 1
    /\ CacheKey(ret.doi.id) \notin DOMAIN cache
    /\ cache # <<>> /\ nops = MaxOps

\* C28: nothing keeps two saves of one instance apart.  A save that
\* starts while another save of the same collection call, for the same
\* instance, waits for the answer to its update (the instance not
\* materialized again since the call) computes the same diff and sends the
\* same update once more.
C28_SavesRace ==
    [][\A t, u \in DOMAIN tasks :
          (/\ t # u
           /\ tasks[t].kind = "save" /\ tasks[t].pc = "start"
           /\ tasks[u].kind = "save" /\ tasks[u].pc = "io"
           /\ tasks[u].io = "update"
           /\ tasks[u].obj = tasks[t].obj
           /\ tasks[u].parent = tasks[t].parent /\ tasks[t].parent > 0
           /\ tasks[u].stamp = objs[tasks[t].obj].refreshed_at
           /\ tasks[t].stamp = objs[tasks[t].obj].refreshed_at
           /\ (t \in DOMAIN tasks' => tasks'[t].pc # "start"))
          => /\ t \in DOMAIN tasks'
             /\ tasks'[t].pc = "io" /\ tasks'[t].io = "update"
             /\ tasks'[t].changes = tasks[u].changes
             /\ tasks'[t].sent = <<tasks[u].changes>>]_vars

\* two saves of the same instance both wait for the answer to the same
\* update, computed from the same last payload
C28_Witness ==
    \E t, u \in DOMAIN tasks :
        /\ t # u /\ tasks[t].obj = tasks[u].obj
        /\ tasks[t].kind = "save" /\ tasks[u].kind = "save"
        /\ tasks[t].pc = "io" /\ tasks[u].pc = "io"
        /\ tasks[t].io = "update" /\ tasks[u].io = "update"
        /\ tasks[t].changes = tasks[u].changes
        /\ tasks[t].changes # EmptyDict
        /\ tasks[t].stamp = objs[tasks[t].obj].refreshed_at

\* the collection call that ends in this step had started one operation
\* of the kind op for each member, in order, and it returns when all of
\* them are done and raises when one of them has failed
BatchEnds(kinds, op) ==
    ret'.kind \in kinds
    => \E t \in DOMAIN tasks :
          /\ tasks[t].parent = 0 /\ tasks[t].kind = ret'.kind
          /\ Len(tasks[t].kids) = Len(ret'.members)
          /\ \A i \in DOMAIN tasks[t].kids :
                /\ tasks[tasks[t].kids[i]].kind = op
                /\ tasks[tasks[t].kids[i]].obj = ret'.members[i]
          /\ ret'.pc = "done"
             => \A i \in DOMAIN tasks[t].kids :
                   tasks[tasks[t].kids[i]].pc = "done"
          /\ ret'.pc = "failed"
             <=> \E i \in DOMAIN tasks[t].kids :
                    tasks[tasks[t].kids[i]].pc = "failed"

\* C29: a collection's save and a collection's inflate (its refresh of
\* all members) each start the operation once for every member, return
\* only when all of them are done, and raise when one of them has failed.
C29_BatchOps ==
    [][BatchEnds({"save_all"}, "save")
       /\ BatchEnds({"inflate_all"}, "refresh")]_vars

\* task t was started, directly or through other tasks, by task a
RECURSIVE Descends(_, _)
Descends(t, a) ==
    /\ tasks[t].parent \in DOMAIN tasks
    /\ (tasks[t].parent = a \/ Descends(tasks[t].parent, a))

\* C30: while a get waits for the inflations of the instance it made on a
\* cache miss, the cache holds that instance under its id, and every get
\* of that id that this materialization has started, directly or through
\* other materializations, and that has run, has found the instance
\* there: it has returned it without a fetch.
C30_RegisteredFirst ==
    \A a \in DOMAIN tasks :
        (tasks[a].kind = "get" /\ tasks[a].pc = "wait")
        => /\ obj_cache_get(State, objs[tasks[a].obj].attrs["id"]) = tasks[a].obj
           /\ \A t \in DOMAIN tasks :
                 (/\ tasks[t].kind = "get" /\ ~tasks[t].doi.isData
                  /\ tasks[t].doi.id = objs[tasks[a].obj].attrs["id"]
                  /\ tasks[t].pc # "start"
                  /\ Descends(t, a))
                 => /\ tasks[t].pc = "done" /\ ~tasks[t].fetched
                    /\ tasks[t].hit = tasks[a].obj
                    /\ tasks[t].result = Obj(tasks[a].obj)

\* a get of an organization waits for its boards while the get of its
\* board's organization, started by the board's materialization, has
\* returned the waiting instance
C30_Witness ==
    \E a, t \in DOMAIN tasks :
        /\ tasks[a].kind = "get" /\ tasks[a].pc = "wait" /\ tasks[a].fetched
        /\ tasks[t].kind = "get" /\ tasks[t].pc = "done"
        /\ Descends(t, a)
        /\ tasks[t].doi.id = objs[tasks[a].obj].attrs["id"]
        /\ tasks[t].result = Obj(tasks[a].obj)
        /\ Count(getFetches, CacheKey(tasks[t].doi.id)) = 1

\* C31: when a save that had to create its object returns, the cache holds
\* the instance under the id the remote side gave it, and no two instances
\* have that id.
C31_CreatedIsCached ==
    (ret.kind = "save" /\ ~ret.hadId /\ ret.pc = "done")
    => /\ Truthy(objs[ret.obj].attrs["id"])
       /\ obj_cache_get(State, objs[ret.obj].attrs["id"]) = ret.obj
       /\ \A p \in DOMAIN objs :
             GetOr(objs[p].attrs, "id") = objs[ret.obj].attrs["id"]
             => p = ret.obj

\* C32: every key of the cache is the id of the instance stored under it,
\* check items built from a checklist payload included.
C32_KeyedById ==
    \A k \in DOMAIN cache :
        /\ "id" \in DOMAIN objs[cache[k]].attrs
        /\ objs[cache[k]].attrs["id"].t = "str"
        /\ objs[cache[k]].attrs["id"].v = <<k>>

(***************************************************************************)
(* A last run, for callers that share the event loop: a coroutine of       *)
(* the caller starts cls.get(id, tc) while gets started earlier are still  *)
(* in flight.                                                              *)
(***************************************************************************)
PairInputs == {o1, b1}

\* cls.get(id, tc) handed to the running loop next to the calls in flight
Schedule(id) ==
    /\ nops < MaxOps
    /\ Commit([Cur EXCEPT !.tasks = SetKey(@, FreeTask(Cur, 1),
                  [NoTask EXCEPT !.kind = "get", !.cls = server[id].cls,
                                 !.doi = Id(id), !.inflate = TRUE,
                                 !.pc = "start", !.parent = 0])])
    /\ nops' = nops + 1
    /\ UNCHANGED <<nsets, nfail>>

NextPair ==
    \/ \E id \in PairInputs : Schedule(id)
    \/ TaskStep

SpecPair == Init /\ [][NextPair]_vars

\* C33: the instance a top-level get(id) returns has been materialized: its
\* _refreshed_at is set and it has the payload it was materialized from.
C33_ReturnedIsMaterialized ==
    (DoneGet(ret) /\ ret.parent = 0)
    => /\ objs[ret.obj].refreshed_at > 0
       /\ objs[ret.obj].has_raw

\* C34: a get(payload) that fails on a key the class does not declare
\* changes neither the cache nor any instance that existed before it.
C34_FailedGetLeavesNoTrace ==
    [][(/\ ret'.kind = "get" /\ ret'.doi.isData
        /\ ret'.pc = "failed" /\ ret'.exc.what = "unknown field")
       => /\ cache' = cache
          /\ \A o \in DOMAIN objs : objs'[o] = objs[o]]_vars

\* C35: a delete() ends in one of two ways: it fails in a step that changes
\* neither the remote side nor the cache nor any instance, or it returns
\* with the remote resource gone, no cache entry for the id and none of the
\* attributes of the materialization left on the instance.
C35_DeleteAllOrNothing ==
    [][(ret'.kind = "delete" /\ Finished(ret'))
       => \/ /\ ret'.pc = "failed"
             /\ server' = server /\ cache' = cache /\ objs' = objs
          \/ /\ ret'.pc = "done"
             /\ CacheKey(ret'.doi.id) \notin DOMAIN server'
             /\ CacheKey(ret'.doi.id) \notin DOMAIN cache'
             /\ (DOMAIN objs'[ret'.obj].attrs)
                   \subseteq ((DOMAIN NewInstance(ret'.cls, None, None).attrs)
                                 \ {"id"})]_vars

\* the instance has every key of its payload as an attribute, as a
\* materialization without inflation leaves it
MaterializedFlat(ob) == ob.has_raw /\ DOMAIN ob.raw \subseteq DOMAIN ob.attrs

\* C36: a save() of an instance that was materialized without inflation
\* does not fail in computing its update-diff: if it fails, the DataSource
\* call it made has failed.
C36_FlatDiffTotal ==
    (/\ ret.kind = "save" /\ ret.hadId /\ ret.pc = "failed"
     /\ ret.cls # "CheckItem"
     /\ MaterializedFlat(objs[ret.obj]))
    => ret.io = "update" /\ ret.exc = NoExc

C38_LabelsKeepEntries ==
    [][(ret'.kind = "get_labels" /\ ret'.pc = "done")
       => /\ \A k \in DOMAIN cache :
                k \in DOMAIN cache' /\ cache'[k] = cache[k]
          /\ \A i \in DOMAIN ret'.result.v :
                \A k \in DOMAIN cache :
                   objs'[ret'.result.v[i]].attrs["id"] = Str(k)
                   => ret'.result.v[i] = cache[k]]_vars

\* C39: a call of request sends its request at most eleven times, once and
\* ten more after answers with status 429, and so comes to an end whatever
\* the remote side answers.
C39_RetryBounded ==
    \A t \in DOMAIN tasks :
        tasks[t].kind = "request" => tasks[t].nSend <= RetryLimit + 1

=============================================================================
